---- MODULE Spec2Model ----
(***************************************************************************)
(* A model of coolssh, a minimal SSH 2.0 client.                           *)
(*                                                                         *)
(* SpecConn models the handshake of Connection::new (connection.rs),       *)
(* SpecRecv the packet filter of PacketReader::recv_raw (packets.rs), and  *)
(* SpecRun and SpecWrite the channel layer of run.rs: Connection::run,     *)
(* Run::poll, Run::write_poll, Run::write and the drop of a Run.  SpecSend *)
(* models the framing of PacketWriter::send byte by byte, and SpecPull a   *)
(* poll over the reads recv_raw makes of one packet: its length, its body  *)
(* and its MAC, each of which may time out.  SpecChan follows the Runs of  *)
(* one connection together with the server's view of their channels, and   *)
(* SpecBanner is SpecConn with the client kept running.                    *)
(*                                                                         *)
(* The client is one sequential program; it blocks only in reads of the    *)
(* socket, so every action is the code between two receives.  The server   *)
(* and the socket are the environment: each receive draws the next line,   *)
(* packet or surfaced message (or a read timeout) from a small set, each   *)
(* socket write either completes or fails for good; in SpecSend a write    *)
(* may also time out.                                                      *)
(*                                                                         *)
(* u32 is modelled as a word of U32Bits bits and usize as a word of twice  *)
(* that width, so that the window arithmetic keeps its wrap-around.        *)
(***************************************************************************)
EXTENDS Integers, Sequences, FiniteSets, TLC

\* ------------------------------------------------------------------ bounds
U32Bits == 3
MaxRuns == 2
MaxEnv == 2
MaxData == 1
MaxBuf == 3
MaxWindow == 2
MaxPacket == 2
MaxPolls == 2
MaxPackets == 3
MaxLines == 2
MaxPayload == 28
MaxStream == 64
MaxPartial == 1
WireLength == 12
MaxSent == 3
MaxInflight == 2
MaxMagnitude == 3
MaxQuickPolls == 3
MaxCloses == 2

U32Mod == 2 ^ U32Bits
UsizeMod == U32Mod * U32Mod

Min(a, b) == IF a <= b THEN a ELSE b

\* ------------------------------------------------------- src/src/run.rs:9-11
CLIENT_INITIAL_WINDOW_SIZE == U32Mod - 1
CLIENT_WIN_TELL_TRIGGER == CLIENT_INITIAL_WINDOW_SIZE \div 4
CLIENT_MAX_PACKET_SIZE == 64 * 4096

\* Option<ExitStatus>: None is <<>>, Some(s) is <<s>>.
None == <<>>
Some(s) == <<s>>

VARIABLES
    rpc,                    \* where the client program stands in the channel layer
    op,                     \* the API call in progress, or the last one made
    res,                    \* what the last completed API call returned
    out,                    \* the messages written to the socket by that call, in order
    next_client_channel,    \* Connection.next_client_channel
    env,                    \* argument of run(): the environment variables
    client_channel,         \* local of run(), then Run.client_channel
    confirmation,           \* local of run(): the ChannelOpenConfirmation received
    server_channel,         \* Run.server_channel
    server_max_packet_size, \* Run.server_max_packet_size
    server_window,          \* Run.server_window
    client_window,          \* Run.client_window
    exit_status,            \* Run.exit_status
    closed,                 \* Run.closed
    data,                   \* write_poll's `data`: the part of the buffer not yet sent
    wbuf,                   \* the buffer the caller passed to write / write_poll
    npolls,                 \* polls made by the write in progress
    received,               \* the message the last reader.recv() returned
    starved,                \* the window, not the packet size or the data, cut a step of this write
    last_exit,              \* the exit status the server sent last on this channel, if any
    close_seen              \* a poll of this Run has received ChannelClose

runVars == <<rpc, op, res, out, next_client_channel, env, client_channel, confirmation,
             server_channel, server_max_packet_size, server_window, client_window,
             exit_status, closed, data, wbuf, npolls, received, starved, last_exit,
             close_seen>>

VARIABLES
    rd,                     \* where the client stands in PacketReader::recv_raw
    packet_number,          \* PacketReader.packet_number
    negociated,             \* PacketReader.negociated is Some: cipher and MAC installed
    consumed,               \* the packets read whole from the socket, in order
    surfaced,               \* the payloads recv_raw has returned, in order
    rres                    \* what the last recv_raw call returned

recvVars == <<rd, packet_number, negociated, consumed, surfaced, rres>>

VARIABLES
    hs,                     \* where the client stands in Connection::new
    auth,                   \* argument of new(): the Auth variant
    peer_version,           \* local of new(): the lines read_line has appended
    server_kexinit,         \* local of new(): the server's KexInit payload
    session_id,             \* local of new(): the exchange hash, once verified
    encrypted,              \* set_encryptor and set_decryptor have been called
    csent,                  \* what new() has written to the socket, in order
    crcvd,                  \* what new() has read from the socket, in order
    eof,                    \* the peer has closed the stream and new() has read up to there
    eof_reads,              \* the parity of the reads of new() that met the end of the stream
    cres                    \* what new() returned

connVars == <<hs, auth, peer_version, server_kexinit, session_id, encrypted, csent, crcvd,
              eof, eof_reads, cres>>

VARIABLES
    w_packet,               \* PacketWriter.packet: the buffer send_raw built last
    w_packet_number,        \* PacketWriter.packet_number
    w_negociated,           \* PacketWriter.negociated is Some: cipher and MAC installed
    w_block_size,           \* PacketWriter.block_size
    w_keystream,            \* the bytes of keystream the encryptor has produced
    w_message,              \* the payload the last send dumped
    sres                    \* what the last send returned

sendVars == <<w_packet, w_packet_number, w_negociated, w_block_size, w_keystream,
              w_message, sres>>

VARIABLES
    at,                     \* where the socket stands in the packet the server is sending
    keystream,              \* the bytes of keystream the decryptor has applied
    pulled,                 \* the encrypted bytes read from the socket
    peer_number,            \* the sequence number the server gives the packet it is sending
    io                      \* what the last read of the socket reported

pullVars == <<at, keystream, pulled, peer_number, io>>

VARIABLES
    stream,                 \* the bytes written to the socket that the reader has not read
    inflight,               \* the payloads of the packets in `stream`, in order
    r_packet,               \* PacketReader.packet
    r_mac_size,             \* PacketReader.mac_size
    r_payload,              \* the slice of its packet that recv_raw returned last
    w_count,                \* the packets the writer has sent since the connection started
    r_count,                \* the packets the reader has accepted since then
    w_fed,                  \* the sequence number the writer fed into its last MAC
    r_fed                   \* the sequence number the reader fed into its last MAC

loopVars == <<stream, inflight, r_packet, r_mac_size, r_payload, w_count, r_count, w_fed, r_fed>>

VARIABLES
    c_op,                   \* the codec function under test
    c_in,                   \* its input
    c_mid,                  \* what the first conversion returned
    c_out                   \* what the conversion back returned

codecVars == <<c_op, c_in, c_mid, c_out>>

VARIABLES
    q_pc,                   \* where the client stands in quick_run_internal
    q_helper,               \* which of quick_run, quick_run_bytes, quick_run_blind was called
    q_output,               \* local of quick_run_internal: the output collected
    q_events,               \* what each poll of the helper returned, with the bytes received
    q_sleeps,               \* the milliseconds the helper has slept
    q_res                   \* what the helper returned

quickVars == <<q_pc, q_helper, q_output, q_events, q_sleeps, q_res>>

VARIABLES
    addressed,              \* the recipient_channel of the message the last receive returned
    unclosed,               \* the client channels the server runs a command on and has not closed
    peer_credit,            \* the bytes the server may still send on the channel of the Run
    close_count             \* the ChannelClose messages the client has sent on that channel

chanVars == <<addressed, unclosed, peer_credit, close_count>>

extVars == <<loopVars, codecVars, quickVars, chanVars>>

pktVars == <<sendVars, pullVars, extVars>>

vars == <<runVars, recvVars, connVars, pktVars>>

\* ---------------------------------------------------------------- results
Res(tag, err, n, st) == [tag |-> tag, err |-> err, n |-> n, st |-> st]
NoRes == Res("none", "", 0, None)
Ok == Res("Ok", "", 0, None)
Err(kind) == Res("Err", kind, 0, None)
\* Error::UnexpectedMessageType(msg_type), src/src/messages.rs:19: the error carries the
\* type of the message received.
UnexpectedMessageType(typ) == Res("Err", "UnexpectedMessageType", 0, Some(typ))
Accepted == Res("Accepted", "", 0, None)
Refused == Res("Refused", "", 0, None)
\* RunEvent, src/src/run.rs:140-145
EvNone == Res("None", "", 0, None)
EvData(n) == Res("Data", "", n, None)
EvExtDataStderr(n) == Res("ExtDataStderr", "", n, None)
EvStopped(st) == Res("Stopped", "", 0, st)

IsTransportError(r) == r.tag = "Err" /\ r.err = "TcpError"

\* --------------------------------------------------- messages the client sends
ChannelOpen(cc) ==
    [type |-> "ChannelOpen", channel_type |-> "session", client_channel |-> cc,
     client_initial_window_size |-> CLIENT_INITIAL_WINDOW_SIZE,
     client_max_packet_size |-> CLIENT_MAX_PACKET_SIZE]
EnvironmentVariable(rc, name) ==
    [type |-> "ChannelRequest", request |-> "env", recipient_channel |-> rc,
     want_reply |-> FALSE, name |-> name]
Exec(rc) ==
    [type |-> "ChannelRequest", request |-> "exec", recipient_channel |-> rc,
     want_reply |-> TRUE]
ChannelClose(rc) == [type |-> "ChannelClose", recipient_channel |-> rc]
ChannelData(rc, d) == [type |-> "ChannelData", recipient_channel |-> rc, data |-> d]
ChannelWindowAdjust(rc, n) ==
    [type |-> "ChannelWindowAdjust", recipient_channel |-> rc, bytes_to_add |-> n]

\* ------------------------------------------------ messages the server sends
\* What reader.recv() hands to run(): any surfaced message, or a read timeout.
RunInputs ==
    {[type |-> "ChannelOpenConfirmation", server_channel |-> sc,
      server_initial_window_size |-> w, server_max_packet_size |-> p] :
        sc \in {5, 6}, w \in 0..MaxWindow, p \in 1..MaxPacket}
    \cup {[type |-> t] : t \in {"ChannelOpenFailure", "ChannelSuccess", "ChannelFailure",
                                "Debug", "Timeout"}}

\* What reader.recv() hands to poll().
PollInputs ==
    {[type |-> "ChannelData", len |-> k] : k \in 0..MaxData}
    \cup {[type |-> "ChannelExtendedData", data_type |-> t, len |-> 1] : t \in {1, 2}}
    \cup {[type |-> "ChannelWindowAdjust", bytes_to_add |-> n] : n \in 1..MaxWindow}
    \cup {[type |-> "ExitStatus", exit_status |-> s] : s \in {0, 1}}
    \cup {[type |-> t] : t \in {"ChannelEof", "ChannelClose", "ChannelSuccess", "Timeout"}}

\* Message::parse, src/src/messages.rs:197-231: the types it has no parser for.
Unparsed == {"Ignore", "Debug", "UserauthBanner", "RequestSuccess", "RequestFailure"}

\* The error of a receive that did not yield the message the caller matches on.
RecvError(m) ==
    IF m.type = "Timeout" THEN Err("Timeout")
    ELSE IF m.type \in Unparsed THEN Err("Unimplemented")
    ELSE UnexpectedMessageType(m.type)

\* The buffer of n bytes the caller writes: byte i has the value i.
Buf(n) == [i \in 1..n |-> i]

NoMessage == [type |-> "none"]

\* No Run exists: the channel layer before the first run().
RunIdle ==
    /\ rpc = "ready"
    /\ op = "none"
    /\ res = NoRes
    /\ out = <<>>
    /\ next_client_channel = 0
    /\ env = <<>>
    /\ client_channel = 0
    /\ confirmation = NoMessage
    /\ server_channel = 0
    /\ server_max_packet_size = 0
    /\ server_window = 0
    /\ client_window = 0
    /\ exit_status = None
    /\ closed = FALSE
    /\ data = <<>>
    /\ wbuf = <<>>
    /\ npolls = 0
    /\ received = NoMessage
    /\ starved = FALSE
    /\ last_exit = None
    /\ close_seen = FALSE

\* The packet reader as PacketReader::new leaves it, src/src/packets.rs:20-29.
RecvIdle ==
    /\ rd = "idle"
    /\ packet_number = 0
    /\ negociated = FALSE
    /\ consumed = <<>>
    /\ surfaced = <<>>
    /\ rres = NoRes

\* The handshake done: Connection::new has returned the connection.
ConnIdle ==
    /\ hs = "connected"
    /\ auth = "Password"
    /\ peer_version = <<>>
    /\ server_kexinit = NoMessage
    /\ session_id = NoMessage
    /\ encrypted = TRUE
    /\ csent = <<>>
    /\ crcvd = <<>>
    /\ eof = FALSE
    /\ eof_reads = 0
    /\ cres = Ok

\* The packet writer with the keys installed and nothing sent since.
SendIdle ==
    /\ w_packet = <<>>
    /\ w_packet_number = 0
    /\ w_negociated = TRUE
    /\ w_block_size = 32
    /\ w_keystream = 0
    /\ w_message = <<>>
    /\ sres = NoRes

\* The socket between two packets.
Boundary == [seg |-> "length", off |-> 0]

NoIo == [kind |-> "none", got |-> 0]

\* The byte-level reader at rest at the start of the encrypted stream.
PullIdle ==
    /\ at = Boundary
    /\ keystream = 0
    /\ pulled = 0
    /\ peer_number = 0
    /\ io = NoIo

\* No packet is in flight between a writer and a reader of this process.
LoopIdle ==
    /\ stream = <<>>
    /\ inflight = <<>>
    /\ r_packet = <<>>
    /\ r_mac_size = 0
    /\ r_payload = <<>>
    /\ w_count = 0
    /\ r_count = 0
    /\ w_fed = None
    /\ r_fed = None

\* No conversion is under way.
CodecIdle ==
    /\ c_op = "none"
    /\ c_in = None
    /\ c_mid = None
    /\ c_out = None

\* No quick_run helper is under way.
QuickIdle ==
    /\ q_pc = "idle"
    /\ q_helper = "none"
    /\ q_output = None
    /\ q_events = <<>>
    /\ q_sleeps = 0
    /\ q_res = NoRes

\* No channel has been opened.
ChanIdle ==
    /\ addressed = None
    /\ unclosed = {}
    /\ peer_credit = 0
    /\ close_count = 0

ExtIdle == LoopIdle /\ CodecIdle /\ QuickIdle /\ ChanIdle

PktIdle == SendIdle /\ PullIdle /\ ExtIdle

RunInit == RunIdle /\ RecvIdle /\ ConnIdle /\ PktIdle

\* ------------------------------------------------------------ Connection::run
\* src/src/run.rs:20-29: allocate the channel id and send ChannelOpen.
run_open_body ==
    /\ rpc = "ready"
    /\ next_client_channel < MaxRuns
    /\ \E n \in 0..MaxEnv, sent \in BOOLEAN :
        /\ op' = "run"
        /\ env' = [i \in 1..n |-> i]
        /\ client_channel' = next_client_channel
        /\ next_client_channel' = (next_client_channel + 1) % U32Mod
        /\ IF sent
           THEN /\ out' = <<ChannelOpen(next_client_channel)>>
                /\ res' = NoRes
                /\ rpc' = "run_confirm"
           ELSE /\ out' = <<>>
                /\ res' = Err("TcpError")
                /\ rpc' = "dead"
    /\ received' = NoMessage
    /\ close_seen' = FALSE
    /\ UNCHANGED <<confirmation, server_channel, server_max_packet_size, server_window,
                   client_window, exit_status, closed, data, wbuf, npolls, starved,
                   last_exit>>

\* run() on a connection that does nothing else.
run_open ==
    /\ UNCHANGED <<recvVars, connVars, pktVars>>
    /\ run_open_body

\* run() with exec sent ahead of the environment.
RunRequestsExecFirst(sc) ==
    <<Exec(sc)>> \o [i \in 1..Len(env) |-> EnvironmentVariable(sc, env[i])]

\* The requests run() sends once the channel is confirmed: one env per variable, then exec.
RunRequests(sc) ==
    [i \in 1..Len(env) |-> EnvironmentVariable(sc, env[i])] \o <<Exec(sc)>>

\* src/src/run.rs:31-51: receive ChannelOpenConfirmation, send the env requests and exec.
run_confirm_body ==
    /\ rpc = "run_confirm"
    /\ \E m \in RunInputs :
        /\ received' = m
        /\ IF m.type = "ChannelOpenConfirmation"
           THEN \E k \in 0..(Len(env) + 1) :
                   \* k of the sends complete; the first that fails ends run() with its error
                   /\ confirmation' = m
                   /\ out' = out \o SubSeq(RunRequests(m.server_channel), 1, k)
                   /\ IF k = Len(env) + 1
                      THEN res' = NoRes /\ rpc' = "run_reply"
                      ELSE res' = Err("TcpError") /\ rpc' = "dead"
           ELSE /\ res' = RecvError(m)
                /\ rpc' = "ready"
                /\ UNCHANGED <<confirmation, out>>
    /\ UNCHANGED <<op, next_client_channel, env, client_channel, server_channel,
                   server_max_packet_size, server_window, client_window, exit_status,
                   closed, data, wbuf, npolls, starved, last_exit, close_seen>>

\* run() goes on, on a connection that does nothing else.
run_confirm ==
    /\ UNCHANGED <<recvVars, connVars, pktVars>>
    /\ run_confirm_body

\* src/src/run.rs:53-70: the reply to exec decides Accepted(Run), Refused or an error.
run_reply_body ==
    /\ rpc = "run_reply"
    /\ \E m \in RunInputs :
        /\ received' = m
        /\ CASE m.type = "ChannelSuccess" ->
                   /\ res' = Accepted
                   /\ rpc' = "running"
                   /\ server_channel' = confirmation.server_channel
                   /\ exit_status' = None
                   /\ closed' = FALSE
                   /\ client_window' = CLIENT_INITIAL_WINDOW_SIZE
                   /\ server_window' = confirmation.server_initial_window_size
                   /\ server_max_packet_size' = confirmation.server_max_packet_size
                   /\ last_exit' = None
                   /\ close_seen' = FALSE
             [] m.type = "ChannelFailure" ->
                   /\ res' = Refused
                   /\ rpc' = "ready"
                   /\ UNCHANGED <<server_channel, exit_status, closed, client_window,
                                  server_window, server_max_packet_size, last_exit,
                                  close_seen>>
             [] OTHER ->
                   /\ res' = RecvError(m)
                   /\ rpc' = "ready"
                   /\ UNCHANGED <<server_channel, exit_status, closed, client_window,
                                  server_window, server_max_packet_size, last_exit,
                                  close_seen>>
    /\ UNCHANGED <<op, out, next_client_channel, env, client_channel, confirmation,
                   data, wbuf, npolls, starved>>

\* run() returns, on a connection that does nothing else.
run_reply ==
    /\ UNCHANGED <<recvVars, connVars, pktVars>>
    /\ run_reply_body

\* ------------------------------------------------------------------ Run::poll
\* poll() telling the server only once the window is below the trigger by one more byte.
below_trigger_late(cw) == cw + 1 < CLIENT_WIN_TELL_TRIGGER

\* src/src/run.rs:162: the window is low enough to tell the server.
below_trigger(cw) == cw < CLIENT_WIN_TELL_TRIGGER

\* src/src/run.rs:165: the credit that brings the window back to its ceiling.
bytes_to_add(cw) == CLIENT_INITIAL_WINDOW_SIZE - cw

\* poll() forgetting the exit status when the channel closes.
stopped_event_forgetful == EvStopped(None)

\* src/src/run.rs:187: the event of a ChannelClose.
stopped_event == EvStopped(exit_status)

\* src/src/run.rs:148-206 as a function of the message received and of whether the
\* socket write it makes, if any, completes: the Run afterwards, the messages sent
\* and the event (or error) returned.
poll(m, sent) ==
    LET keep == [client_window |-> client_window, server_window |-> server_window,
                 exit_status |-> exit_status, closed |-> closed, sends |-> <<>>,
                 ev |-> EvNone]
    IN CASE m.type = "Timeout" -> keep
         [] m.type = "ChannelData" ->
                LET dec == (client_window - m.len) % UsizeMod
                    cw == dec % U32Mod
                IN IF below_trigger(cw)
                   THEN IF sent
                        THEN [keep EXCEPT
                                !.sends = <<ChannelWindowAdjust(server_channel,
                                              bytes_to_add(cw))>>,
                                !.client_window = CLIENT_INITIAL_WINDOW_SIZE,
                                !.ev = EvData(m.len)]
                        ELSE [keep EXCEPT !.client_window = dec, !.ev = Err("TcpError")]
                   ELSE [keep EXCEPT !.client_window = dec, !.ev = EvData(m.len)]
         [] m.type = "ChannelWindowAdjust" ->
                [keep EXCEPT !.server_window = (server_window + m.bytes_to_add) % UsizeMod]
         [] m.type = "ChannelEof" -> keep
         [] m.type = "ChannelClose" ->
                IF sent
                THEN [keep EXCEPT !.sends = <<ChannelClose(server_channel)>>,
                                  !.closed = TRUE,
                                  !.ev = stopped_event]
                ELSE [keep EXCEPT !.ev = Err("TcpError")]
         [] m.type = "ExitStatus" ->
                [keep EXCEPT !.exit_status = Some(m.exit_status)]
         [] m.type = "ChannelExtendedData" /\ m.data_type = 1 ->
                [keep EXCEPT !.ev = EvExtDataStderr(m.len)]
         [] OTHER -> [keep EXCEPT !.ev = RecvError(m)]

\* The socket write a poll makes may fail; a poll that writes nothing cannot fail so.
WriteOutcomes(m) ==
    IF m.type \in {"ChannelData", "ChannelClose"} THEN BOOLEAN ELSE {TRUE}

\* What the server may send next: it honours the window the client granted, and the
\* model stops counting remote credit at MaxWindow.
Conforming(m) ==
    /\ m.type = "ChannelData" => m.len <= client_window
    /\ m.type = "ChannelWindowAdjust" => server_window + m.bytes_to_add <= MaxWindow

\* The exit status the server sent last, this message included.
LastExit(m) == IF m.type = "ExitStatus" THEN Some(m.exit_status) ELSE last_exit

\* A poll() the caller makes on an accepted Run.
poll_call_body ==
    /\ rpc = "running"
    /\ \E m \in PollInputs : \E sent \in WriteOutcomes(m) :
        /\ Conforming(m)
        /\ LET p == poll(m, sent)
           IN /\ client_window' = p.client_window
              /\ server_window' = p.server_window
              /\ exit_status' = p.exit_status
              /\ closed' = p.closed
              /\ out' = p.sends
              /\ res' = p.ev
              /\ rpc' = IF IsTransportError(p.ev) THEN "dead" ELSE "running"
        /\ received' = m
        /\ last_exit' = LastExit(m)
        /\ close_seen' = (close_seen \/ m.type = "ChannelClose")
    /\ op' = "poll"
    /\ env' = <<>>
    /\ confirmation' = NoMessage
    /\ data' = <<>>
    /\ wbuf' = <<>>
    /\ npolls' = 0
    /\ starved' = FALSE
    /\ UNCHANGED <<next_client_channel, client_channel, server_channel,
                   server_max_packet_size>>

\* A poll() the caller makes, on a connection that does nothing else.
poll_call ==
    /\ UNCHANGED <<recvVars, connVars, pktVars>>
    /\ poll_call_body

\* ------------------------------------------------- Run::write_poll, Run::write
\* write_poll() without the check of `closed`.
has_exited_unchecked == FALSE

\* src/src/run.rs:217: a closed run takes no write.
has_exited == closed

\* src/src/run.rs:212-219 and 255-261: the call, with the buffer of n bytes, and the
\* check that the run is not closed.  write is write_poll with a callback that fails.
write_call ==
    /\ UNCHANGED <<recvVars, connVars, pktVars>>
    /\ rpc = "running"
    /\ \E kind \in {"write", "write_poll"}, n \in 0..MaxBuf :
        /\ op' = kind
        /\ wbuf' = Buf(n)
        /\ data' = Buf(n)
    /\ out' = <<>>
    /\ npolls' = 0
    /\ env' = <<>>
    /\ confirmation' = NoMessage
    /\ received' = NoMessage
    /\ starved' = FALSE
    /\ IF has_exited
       THEN res' = Err("ProcessHasExited") /\ rpc' = "running"
       ELSE res' = NoRes /\ rpc' = "write_loop"
    /\ UNCHANGED <<next_client_channel, client_channel, server_channel,
                   server_max_packet_size, server_window, client_window, exit_status,
                   closed, last_exit, close_seen>>

\* write_poll() cutting the chunks by the packet size alone.
step_size_ignoring_window == server_max_packet_size

\* write_poll() sending all that is left of the buffer in one ChannelData.
step_size_whole == Len(data)

\* write_poll() sending one byte less than the server allows in a packet.
step_size_short == Min(server_max_packet_size - 1, server_window)

\* src/src/run.rs:222: the most the next ChannelData may carry.
step_size == Min(server_max_packet_size, server_window)

\* src/src/run.rs:221-242: the top of the loop, up to the poll.
write_send ==
    /\ UNCHANGED <<recvVars, connVars, pktVars>>
    /\ rpc = "write_loop"
    /\ starved' = (starved \/ server_window < Min(server_max_packet_size, Len(data)))
    /\ LET step == step_size
       IN \E sent \in BOOLEAN :
            IF step >= Len(data)
            THEN IF sent
                 THEN /\ out' = Append(out, ChannelData(server_channel, data))
                      /\ server_window' = server_window - Len(data)
                      /\ res' = Ok
                      /\ rpc' = "running"
                      /\ data' = data
                 ELSE /\ res' = Err("TcpError")
                      /\ rpc' = "dead"
                      /\ UNCHANGED <<out, server_window, data>>
            ELSE IF step > 0
            THEN IF sent
                 THEN /\ out' = Append(out, ChannelData(server_channel, SubSeq(data, 1, step)))
                      /\ server_window' = server_window - step
                      /\ data' = SubSeq(data, step + 1, Len(data))
                      /\ rpc' = "write_poll"
                      /\ res' = res
                 ELSE /\ res' = Err("TcpError")
                      /\ rpc' = "dead"
                      /\ UNCHANGED <<out, server_window, data>>
            ELSE /\ rpc' = "write_poll"
                 /\ UNCHANGED <<out, server_window, data, res>>
    /\ UNCHANGED <<op, next_client_channel, env, client_channel, confirmation,
                   server_channel, server_max_packet_size, client_window, exit_status,
                   closed, wbuf, npolls, received, last_exit, close_seen>>

\* write() with a callback that lets every event pass.
CallbackPermissive(accepts) == Ok

\* The callback of the write in progress, src/src/run.rs:257-260: write's always fails
\* with the caller's on_event error, write_poll's is the caller's and may do either.
Callback(accepts) ==
    IF op = "write" THEN Err("on_event")
    ELSE IF accepts THEN Ok ELSE Err("callback")

CallbackOutcomes == IF op = "write" THEN {FALSE} ELSE BOOLEAN

\* src/src/run.rs:244-247: the poll at the bottom of the loop and the callback.
write_wait ==
    /\ UNCHANGED <<recvVars, connVars, pktVars>>
    /\ rpc = "write_poll"
    /\ npolls < MaxPolls
    /\ npolls' = npolls + 1
    /\ \E m \in PollInputs : \E sent \in WriteOutcomes(m), accepts \in CallbackOutcomes :
        /\ Conforming(m)
        /\ received' = m
        /\ last_exit' = LastExit(m)
        /\ close_seen' = (close_seen \/ m.type = "ChannelClose")
        /\ LET p == poll(m, sent)
               cb == Callback(accepts)
           IN /\ client_window' = p.client_window
              /\ server_window' = p.server_window
              /\ exit_status' = p.exit_status
              /\ closed' = p.closed
              /\ out' = out \o p.sends
              /\ IF p.ev.tag = "Err"
                 THEN /\ res' = p.ev
                      /\ rpc' = IF IsTransportError(p.ev) THEN "dead" ELSE "running"
                 ELSE IF p.ev.tag = "None" \/ cb = Ok
                 THEN /\ res' = res
                      /\ rpc' = "write_loop"
                 ELSE /\ res' = cb
                      /\ rpc' = "running"
    /\ UNCHANGED <<op, next_client_channel, env, client_channel, confirmation,
                   server_channel, server_max_packet_size, data, wbuf, starved>>

\* A drop that closes the channel whether or not the Run is closed already.
drop_closes_always == TRUE

\* src/src/run.rs:266: the drop closes the channel unless the Run is closed already.
drop_closes == ~closed

\* The Run is dropped, src/src/run.rs:264-272: its fields are gone and the connection is
\* free for the next run().  The result of the send is thrown away; a socket that
\* failed stays failed.
drop_body ==
    /\ rpc = "running"
    /\ op' = "drop"
    /\ \E sent \in BOOLEAN :
        /\ out' = IF drop_closes /\ sent THEN <<ChannelClose(server_channel)>> ELSE <<>>
        /\ rpc' = IF drop_closes /\ ~sent THEN "dead" ELSE "ready"
    /\ res' = NoRes
    /\ env' = <<>>
    /\ confirmation' = NoMessage
    /\ client_channel' = 0
    /\ server_channel' = 0
    /\ server_max_packet_size' = 0
    /\ server_window' = 0
    /\ client_window' = 0
    /\ exit_status' = None
    /\ closed' = FALSE
    /\ received' = NoMessage
    /\ last_exit' = None
    /\ data' = <<>>
    /\ wbuf' = <<>>
    /\ npolls' = 0
    /\ starved' = FALSE
    /\ UNCHANGED <<next_client_channel, close_seen>>

\* The drop of the Run, on a connection that does nothing else.
drop ==
    /\ UNCHANGED <<recvVars, connVars, pktVars>>
    /\ drop_body

\* Connection::run, polls and the drop of the Run, on a connection that runs up to
\* MaxRuns commands one after the other.
RunNext ==
    \/ run_open
    \/ run_confirm
    \/ run_reply
    \/ poll_call
    \/ drop

SpecRun == RunInit /\ [][RunNext]_vars

\* A Run as run() returns it: exec of a command without environment was accepted on the
\* first channel, by a server that grants any initial window and packets of a byte or more.
RunAccepted ==
    \E w \in 0..MaxWindow, p \in 1..MaxPacket :
           LET conf == [type |-> "ChannelOpenConfirmation", server_channel |-> 5,
                        server_initial_window_size |-> w, server_max_packet_size |-> p]
           IN /\ rpc = "running"
              /\ op = "run"
              /\ res = Accepted
              /\ out = <<ChannelOpen(0), Exec(5)>>
              /\ next_client_channel = 1
              /\ env = <<>>
              /\ client_channel = 0
              /\ confirmation = conf
              /\ server_channel = 5
              /\ server_max_packet_size = p
              /\ server_window = w
              /\ client_window = CLIENT_INITIAL_WINDOW_SIZE
              /\ exit_status = None
              /\ closed = FALSE
              /\ data = <<>>
              /\ wbuf = <<>>
              /\ npolls = 0
              /\ received = [type |-> "ChannelSuccess"]
              /\ starved = FALSE
              /\ last_exit = None
              /\ close_seen = FALSE

WriteInit == RecvIdle /\ ConnIdle /\ PktIdle /\ RunAccepted

\* Writes and polls on that Run, until it is dropped.
WriteNext ==
    \/ poll_call
    \/ write_call
    \/ write_send
    \/ write_wait
    \/ drop

SpecWrite == WriteInit /\ [][WriteNext]_vars

\* ------------------------------------------------- PacketReader::recv_raw
\* MessageType::try_from, src/src/messages.rs:378-414: the registry of type bytes.
MessageTypes ==
    [x \in {1, 2, 3, 4, 5, 6, 20, 21, 30, 31, 50, 51, 52, 53, 60, 80, 81, 82,
            90, 91, 92, 93, 94, 95, 96, 97, 98, 99, 100} |->
        CASE x = 1 -> "Disconnect" [] x = 2 -> "Ignore" [] x = 3 -> "Unimplemented"
          [] x = 4 -> "Debug" [] x = 5 -> "ServiceRequest" [] x = 6 -> "ServiceAccept"
          [] x = 20 -> "Kexinit" [] x = 21 -> "Newkeys" [] x = 30 -> "KexdhInit"
          [] x = 31 -> "KexdhReply" [] x = 50 -> "UserauthRequest"
          [] x = 51 -> "UserauthFailure" [] x = 52 -> "UserauthSuccess"
          [] x = 53 -> "UserauthBanner" [] x = 60 -> "UserauthPkOk"
          [] x = 80 -> "GlobalRequest" [] x = 81 -> "RequestSuccess"
          [] x = 82 -> "RequestFailure" [] x = 90 -> "ChannelOpen"
          [] x = 91 -> "ChannelOpenConfirmation" [] x = 92 -> "ChannelOpenFailure"
          [] x = 93 -> "ChannelWindowAdjust" [] x = 94 -> "ChannelData"
          [] x = 95 -> "ChannelExtendedData" [] x = 96 -> "ChannelEof"
          [] x = 97 -> "ChannelClose" [] x = 98 -> "ChannelRequest"
          [] x = 99 -> "ChannelSuccess" [] x = 100 -> "ChannelFailure"]

\* A payload: its type byte, a body that tells two payloads of a type apart, and for a
\* GlobalRequest whether the body holds the name and the flag, and the flag.
PayloadOf(typ, body, whole, want_reply) ==
    [typ |-> typ, body |-> body, whole |-> whole, want_reply |-> want_reply]

\* The packets the server may put on the wire: Ignore, Debug, channel data, a type
\* byte outside the registry and global requests, each with a MAC trailer that is the
\* right one or not once a MAC is in use.
WirePayloads ==
    {PayloadOf(t, 1, TRUE, FALSE) : t \in {2, 4, 7}}
    \cup {PayloadOf(94, b, TRUE, FALSE) : b \in {1, 2}}
    \cup {PayloadOf(80, 1, TRUE, w) : w \in BOOLEAN}
    \cup {PayloadOf(80, 1, FALSE, FALSE)}

WirePackets ==
    {[payload |-> pl, mac_ok |-> ok] :
        pl \in WirePayloads, ok \in IF negociated THEN BOOLEAN ELSE {TRUE}}

\* A recv_raw that drops every global request, whether or not it wants a reply.
filtered_any_request(pl) ==
    MessageTypes[pl.typ] \in {"Ignore", "GlobalRequest"}

\* src/src/packets.rs:105-117: the payloads recv_raw consumes without returning them.
filtered(pl) ==
    \/ MessageTypes[pl.typ] = "Ignore"
    \/ MessageTypes[pl.typ] = "GlobalRequest" /\ ~pl.want_reply

\* src/src/packets.rs:58-60: a call of recv_raw.
recv_raw_call ==
    /\ UNCHANGED <<runVars, connVars, pktVars>>
    /\ rd = "idle"
    /\ rd' = "recv_raw"
    /\ rres' = NoRes
    /\ UNCHANGED <<packet_number, negociated, consumed, surfaced>>

\* src/src/packets.rs:63-123: one packet read and judged; a filtered one leaves the
\* client in recv_raw, reading the next.
recv_raw_packet ==
    /\ UNCHANGED <<runVars, connVars, pktVars>>
    /\ rd = "recv_raw"
    /\ Len(consumed) < MaxPackets
    /\ \E pkt \in WirePackets :
        LET pl == pkt.payload
        IN /\ consumed' = Append(consumed, pkt)
           /\ IF negociated /\ ~pkt.mac_ok
              THEN /\ rres' = Err("InvalidData")
                   /\ rd' = "idle"
                   /\ UNCHANGED <<packet_number, surfaced>>
              ELSE /\ packet_number' = (packet_number + 1) % U32Mod
                   /\ IF pl.typ \notin DOMAIN MessageTypes
                      THEN /\ rres' = Err("UnknownMessageType")
                           /\ rd' = "idle"
                           /\ UNCHANGED surfaced
                      ELSE IF MessageTypes[pl.typ] = "GlobalRequest" /\ ~pl.whole
                      THEN /\ rres' = Err("UnexpectedEof")
                           /\ rd' = "idle"
                           /\ UNCHANGED surfaced
                      ELSE IF filtered(pl)
                      THEN UNCHANGED <<rres, rd, surfaced>>
                      ELSE /\ rres' = Ok
                           /\ rd' = "idle"
                           /\ surfaced' = Append(surfaced, pl)
    /\ UNCHANGED negociated

\* src/src/packets.rs:37-46 and 63: the read of the length field fails before a byte of
\* the next packet has come (a read timeout, the end of the stream).
recv_raw_fail ==
    /\ UNCHANGED <<runVars, connVars, pktVars>>
    /\ rd = "recv_raw"
    /\ rres' = Err("TcpError")
    /\ rd' = "idle"
    /\ UNCHANGED <<packet_number, negociated, consumed, surfaced>>

\* A reader before or after the keys are installed, its sequence number anywhere in
\* its range.
RecvInit ==
    /\ RunIdle
    /\ ConnIdle
    /\ PktIdle
    /\ rd = "idle"
    /\ packet_number \in {0, U32Mod - 1}
    /\ negociated \in BOOLEAN
    /\ consumed = <<>>
    /\ surfaced = <<>>
    /\ rres = NoRes

RecvNext ==
    \/ recv_raw_call
    \/ recv_raw_packet
    \/ recv_raw_fail

SpecRecv == RecvInit /\ [][RecvNext]_vars

\* ------------------------------------------------------------ Connection::new
\* src/src/lib.rs:43
VERSION_HEADER == "SSH-2.0-tinyssh+1.0"

\* The eight algorithm fields of a KexInit that check_compat looks at,
\* src/src/messages.rs:508-515.
AlgorithmFields ==
    {"kex_algorithms", "server_host_key_algorithms",
     "encryption_algorithms_client_to_server", "encryption_algorithms_server_to_client",
     "mac_algorithms_client_to_server", "mac_algorithms_server_to_client",
     "compression_algorithms_client_to_server", "compression_algorithms_server_to_client"}

\* src/src/connection.rs:69-83: the one name the client offers in each field.
client_kexinit ==
    [type |-> "Kexinit",
     kex_algorithms |-> "curve25519-sha256",
     server_host_key_algorithms |-> "ssh-ed25519",
     encryption_algorithms_client_to_server |-> "aes256-ctr",
     encryption_algorithms_server_to_client |-> "aes256-ctr",
     mac_algorithms_client_to_server |-> "hmac-sha2-256",
     mac_algorithms_server_to_client |-> "hmac-sha2-256",
     compression_algorithms_client_to_server |-> "none",
     compression_algorithms_server_to_client |-> "none",
     languages |-> ""]

\* A server KexInit: each algorithm field is a name-list, here the sequence of its names.
ServerKexinit(lists, languages) ==
    [type |-> "Kexinit",
     kex_algorithms |-> lists["kex_algorithms"],
     server_host_key_algorithms |-> lists["server_host_key_algorithms"],
     encryption_algorithms_client_to_server |->
        lists["encryption_algorithms_client_to_server"],
     encryption_algorithms_server_to_client |->
        lists["encryption_algorithms_server_to_client"],
     mac_algorithms_client_to_server |-> lists["mac_algorithms_client_to_server"],
     mac_algorithms_server_to_client |-> lists["mac_algorithms_server_to_client"],
     compression_algorithms_client_to_server |->
        lists["compression_algorithms_client_to_server"],
     compression_algorithms_server_to_client |->
        lists["compression_algorithms_server_to_client"],
     languages |-> languages]

\* The server KexInits drawn: every field holding the client's name alone, or after
\* another name, or all but one field holding it.
ServerKexinits ==
    {ServerKexinit([f \in AlgorithmFields |-> <<client_kexinit[f]>>], l) : l \in {"", "en"}}
    \cup {ServerKexinit([f \in AlgorithmFields |-> <<"other", client_kexinit[f]>>], "")}
    \cup {ServerKexinit([f \in AlgorithmFields |->
                            IF f = g THEN <<"other">> ELSE <<client_kexinit[f]>>], "") :
            g \in AlgorithmFields}

\* A check_compat that looks at the key exchange and host key fields only.
check_compat_partial(server, client) ==
    \A f \in {"kex_algorithms", "server_host_key_algorithms"} :
        \E i \in 1..Len(server[f]) : server[f][i] = client[f]

\* Kexinit::check_compat, src/src/messages.rs:497-516.
check_compat(server, client) ==
    \A f \in AlgorithmFields : \E i \in 1..Len(server[f]) : server[f][i] = client[f]

\* The peer banner as the handshake keeps it: the lines read, the last without its CRLF.
ServerHeader(lines) ==
    [i \in 1..Len(lines) |->
        IF i = Len(lines) THEN [lines[i] EXCEPT !.ending = ""] ELSE lines[i]]

\* src/src/connection.rs:143-152: what the exchange hash is taken over.  The shared
\* secret is the pair of ephemeral keys it is agreed from.
ExchangeHash(server_header, server_payload, host_key, eph) ==
    [client_header |-> VERSION_HEADER,
     server_header |-> server_header,
     client_kexinit_payload |-> client_kexinit,
     server_kexinit_payload |-> server_payload,
     server_public_host_key |-> host_key,
     client_ephemeral_pubkey |-> "client_ephemeral",
     server_ephemeral_pubkey |-> eph,
     shared_secret |-> <<"client_ephemeral", eph>>]

\* A verify that checks what was signed but not who signed it.
verify_any_signer(host_pubkey, message, signature) ==
    signature.over = message

\* ed25519 PublicKey::verify, src/src/connection.rs:154: the signature is one made with
\* the private half of host_pubkey over exactly this message.
verify(host_pubkey, message, signature) ==
    signature.signer = host_pubkey /\ signature.over = message

KexdhReply(host_key, key_len, eph_len, signer, over, sig_len) ==
    [type |-> "KexdhReply", server_public_host_key |-> host_key, key_len |-> key_len,
     server_ephemeral_pubkey |-> "server_ephemeral", eph_len |-> eph_len,
     signature |-> [signer |-> signer, over |-> over], sig_len |-> sig_len]

\* The KexdhReply messages drawn, for the session as it stands: signed by the host key
\* sent over the hash of this session, signed by another key, signed over the hash of
\* another session, of a wrong length, or with a host key that is no curve point.
KexdhReplies ==
    LET h(k) == ExchangeHash(ServerHeader(peer_version), server_kexinit, k,
                             "server_ephemeral")
        stale(k) == ExchangeHash(ServerHeader(peer_version), server_kexinit, k,
                                 "other_ephemeral")
    IN {KexdhReply(k, 32, 32, k, h(k), 64) : k \in {"hostkey", "otherkey"}}
       \cup {KexdhReply("hostkey", 32, 32, "otherkey", h("hostkey"), 64),
             KexdhReply("hostkey", 32, 32, "hostkey", stale("hostkey"), 64),
             KexdhReply("hostkey", 31, 32, "hostkey", h("hostkey"), 64),
             KexdhReply("hostkey", 32, 31, "hostkey", h("hostkey"), 64),
             KexdhReply("hostkey", 32, 32, "hostkey", h("hostkey"), 63),
             KexdhReply("nopoint", 32, 32, "nopoint", h("nopoint"), 64)}

\* What a receive of the handshake may yield: any message the filter lets through, or
\* a read timeout.
HandshakeInputs ==
    ServerKexinits \cup KexdhReplies
    \cup {[type |-> t] : t \in {"Newkeys", "ServiceAccept", "UserauthPkOk",
                                "UserauthSuccess", "UserauthFailure", "Disconnect",
                                "Debug", "Timeout"}}

\* The lines read_line may yield: with or without the SSH prefix, ended by CRLF or by a
\* bare LF; and the end of the stream, which yields no byte.
BannerLines ==
    {[type |-> "line", prefix |-> x, ending |-> e] :
        x \in {"SSH-2.0-", "SSH-1.99-", "other"}, e \in {"\r\n", "\n"}}

\* src/src/connection.rs:47-48: the text read so far starts with an SSH prefix.
sw(lines) == lines # <<>> /\ lines[1].prefix \in {"SSH-2.0-", "SSH-1.99-"}

Banner == [type |-> "banner", text |-> VERSION_HEADER, encrypted |-> FALSE]
Sent(t) == [type |-> t, encrypted |-> encrypted]

\* src/src/lib.rs:107-109
ed25519_blob_len(content_len) == 4 + 11 + 4 + content_len

\* src/src/connection.rs:200-204: the key blob, of the public half of the keypair of
\* Auth::Ed25519.
ed25519_pub ==
    [blob_len |-> ed25519_blob_len(32), header |-> "ssh-ed25519",
     content |-> "client_public"]

\* What the dump of each kind of value leaves in the data to sign.
String(s) == <<"string", s>>
Byte(b) == <<"byte", b>>
Bool(b) == <<"bool", b>>

\* sign_userauth with the user name dumped ahead of the message type.
sign_userauth_name_first(keypair, id, username, service_name, key) ==
    [signer |-> keypair,
     over |-> <<String(id), String(username), Byte(50), String(service_name),
                String("publickey"), Bool(TRUE), String("ssh-ed25519"), key>>]

\* sign_userauth, src/src/userauth.rs:6-25: the signature of the keypair over what
\* was dumped, in the order of the dumps.
sign_userauth(keypair, id, username, service_name, key) ==
    [signer |-> keypair,
     over |-> <<String(id), Byte(50), String(username), String(service_name),
                String("publickey"), Bool(TRUE), String("ssh-ed25519"), key>>]

\* The UserauthRequest messages, src/src/connection.rs:187-192, 206-212 and 220-230.
UserauthPassword ==
    [type |-> "UserauthRequest", encrypted |-> encrypted, method |-> "password",
     service_name |-> "ssh-connection", signature |-> None]
UserauthPublicKey(signature) ==
    [type |-> "UserauthRequest", encrypted |-> encrypted, method |-> "publickey",
     service_name |-> "ssh-connection", signature |-> signature,
     username |-> "user", has_option |-> signature # None,
     algorithm |-> "ssh-ed25519", blob |-> ed25519_pub]

\* new() fails with this error.
Fail(e) ==
    /\ cres' = e
    /\ hs' = "failed"

\* src/src/connection.rs:34-40: the call, and the client's banner.
new_call ==
    /\ UNCHANGED <<runVars, recvVars, pktVars>>
    /\ hs = "start"
    /\ \E ok \in BOOLEAN :
        IF ok
        THEN /\ csent' = <<Banner>>
             /\ hs' = "banner"
             /\ cres' = NoRes
        ELSE /\ Fail(Err("TcpError"))
             /\ UNCHANGED csent
    /\ UNCHANGED <<eof, eof_reads, auth, peer_version, server_kexinit, session_id, encrypted, crcvd>>

\* src/src/connection.rs:45-52: one turn of the loop: a line is read and appended.
new_read_line ==
    /\ UNCHANGED <<runVars, recvVars, pktVars>>
    /\ hs = "banner"
    /\ ~eof
    /\ Len(peer_version) < MaxLines
    /\ \E line \in BannerLines :
        /\ peer_version' = Append(peer_version, line)
        /\ crcvd' = Append(crcvd, line)
        /\ IF sw(peer_version')
           THEN \* src/src/connection.rs:54-89: the CRLF is popped, KexInit is sent
                IF line.ending # "\r\n"
                THEN /\ Fail(Err("InvalidData"))
                     /\ UNCHANGED csent
                ELSE \E ok \in BOOLEAN :
                        IF ok
                        THEN /\ csent' = Append(csent, Sent("Kexinit"))
                             /\ hs' = "kexinit"
                             /\ cres' = NoRes
                        ELSE /\ Fail(Err("TcpError"))
                             /\ UNCHANGED csent
           ELSE UNCHANGED <<hs, cres, csent>>
    /\ UNCHANGED <<eof, eof_reads, auth, server_kexinit, session_id, encrypted>>

\* src/src/connection.rs:46: read_line fails and `?` returns the error; or the stream
\* has ended: read_line returns Ok(0) and appends nothing, the text is as it was, so
\* the match of lines 48-51 takes `continue` and the loop reads again. A stream that
\* has ended stays ended: every later read returns Ok(0) as well.
new_read_nothing ==
    /\ UNCHANGED <<runVars, recvVars, pktVars>>
    /\ hs = "banner"
    /\ \E failed \in BOOLEAN :
        IF failed
        THEN /\ ~eof
             /\ Fail(Err("TcpError"))
             /\ UNCHANGED <<eof, eof_reads>>
        ELSE /\ eof' = TRUE
             /\ eof_reads' = 1 - eof_reads
             /\ UNCHANGED <<hs, cres>>
    /\ UNCHANGED <<auth, peer_version, server_kexinit, session_id, encrypted, csent, crcvd>>

\* src/src/connection.rs:91-102: the server's KexInit, check_compat, KexdhInit.
new_kexinit ==
    /\ UNCHANGED <<runVars, recvVars, pktVars>>
    /\ hs = "kexinit"
    /\ \E m \in HandshakeInputs :
        /\ crcvd' = Append(crcvd, m)
        /\ IF m.type = "Timeout"
           THEN Fail(Err("TcpError")) /\ UNCHANGED <<csent, server_kexinit>>
           ELSE IF m.type # "Kexinit"
           THEN Fail(RecvError(m)) /\ UNCHANGED <<csent, server_kexinit>>
           ELSE /\ server_kexinit' = m
                /\ IF ~check_compat(m, client_kexinit)
                   THEN Fail(Err("Unimplemented")) /\ UNCHANGED csent
                   ELSE \E ok \in BOOLEAN :
                           IF ok
                           THEN /\ csent' = Append(csent, Sent("KexdhInit"))
                                /\ hs' = "kexdh"
                                /\ cres' = NoRes
                           ELSE Fail(Err("TcpError")) /\ UNCHANGED csent
    /\ UNCHANGED <<eof, eof_reads, auth, peer_version, session_id, encrypted>>

\* src/src/connection.rs:104-162: KexdhReply, the lengths, the host key, the exchange
\* hash, the signature, NewKeys.
new_kexdh ==
    /\ UNCHANGED <<runVars, recvVars, pktVars>>
    /\ hs = "kexdh"
    /\ \E m \in HandshakeInputs :
        /\ crcvd' = Append(crcvd, m)
        /\ IF m.type # "KexdhReply"
           THEN Fail(RecvError(m)) /\ UNCHANGED <<csent, session_id>>
           ELSE IF m.eph_len # 32 \/ m.sig_len # 64 \/ m.key_len # 32
           THEN Fail(Err("InvalidData")) /\ UNCHANGED <<csent, session_id>>
           ELSE IF m.server_public_host_key = "nopoint"
           THEN Fail(Err("InvalidData")) /\ UNCHANGED <<csent, session_id>>
           ELSE LET exchange_hash ==
                        ExchangeHash(ServerHeader(peer_version), server_kexinit,
                                     m.server_public_host_key, m.server_ephemeral_pubkey)
                IN IF ~verify(m.server_public_host_key, exchange_hash, m.signature)
                   THEN Fail(Err("InvalidData")) /\ UNCHANGED <<csent, session_id>>
                   ELSE /\ session_id' = exchange_hash
                        /\ \E ok \in BOOLEAN :
                             IF ok
                             THEN /\ csent' = Append(csent, Sent("Newkeys"))
                                  /\ hs' = "newkeys"
                                  /\ cres' = NoRes
                             ELSE Fail(Err("TcpError")) /\ UNCHANGED csent
    /\ UNCHANGED <<eof, eof_reads, auth, peer_version, server_kexinit, encrypted>>

\* src/src/connection.rs:163-175: the server's NewKeys, the keys, ServiceRequest.
\* set_encryptor and set_decryptor (src/src/packets.rs:154-157 and 31-35) are called
\* with a block size of 32 and a MAC size of 32.
new_newkeys ==
    /\ UNCHANGED <<runVars, pullVars, codecVars, quickVars, chanVars>>
    /\ hs = "newkeys"
    /\ \E m \in HandshakeInputs :
        /\ crcvd' = Append(crcvd, m)
        /\ IF m.type # "Newkeys"
           THEN /\ Fail(RecvError(m))
                /\ UNCHANGED <<csent, encrypted, w_negociated, w_block_size, negociated,
                               r_mac_size>>
           ELSE /\ encrypted' = TRUE
                /\ w_negociated' = TRUE
                /\ w_block_size' = 32
                /\ negociated' = TRUE
                /\ r_mac_size' = 32
                /\ \E ok \in BOOLEAN :
                     IF ok
                     THEN /\ csent' = Append(csent, [type |-> "ServiceRequest",
                                                     encrypted |-> TRUE])
                          /\ hs' = "service"
                          /\ cres' = NoRes
                     ELSE Fail(Err("TcpError")) /\ UNCHANGED csent
    /\ UNCHANGED <<eof, eof_reads, auth, peer_version, server_kexinit, session_id>>
    /\ UNCHANGED <<rd, packet_number, consumed, surfaced, rres>>
    /\ UNCHANGED <<w_packet, w_packet_number, w_keystream, w_message, sres>>
    /\ UNCHANGED <<stream, inflight, r_packet, r_payload, w_count, r_count, w_fed, r_fed>>

\* src/src/connection.rs:178-212: ServiceAccept, then the first UserauthRequest.
new_service ==
    /\ UNCHANGED <<runVars, recvVars, pktVars>>
    /\ hs = "service"
    /\ \E m \in HandshakeInputs :
        /\ crcvd' = Append(crcvd, m)
        /\ IF m.type # "ServiceAccept"
           THEN Fail(RecvError(m)) /\ UNCHANGED csent
           ELSE \E ok \in BOOLEAN :
                  IF ~ok
                  THEN Fail(Err("TcpError")) /\ UNCHANGED csent
                  ELSE /\ cres' = NoRes
                       /\ IF auth = "Password"
                          THEN /\ csent' = Append(csent, UserauthPassword)
                               /\ hs' = "success"
                          ELSE /\ csent' = Append(csent, UserauthPublicKey(None))
                               /\ hs' = "pkok"
    /\ UNCHANGED <<eof, eof_reads, auth, peer_version, server_kexinit, session_id, encrypted>>

\* src/src/connection.rs:215-230: UserauthPkOk, then the signed UserauthRequest.
new_pkok ==
    /\ UNCHANGED <<runVars, recvVars, pktVars>>
    /\ hs = "pkok"
    /\ \E m \in HandshakeInputs :
        /\ crcvd' = Append(crcvd, m)
        /\ IF m.type # "UserauthPkOk"
           THEN Fail(RecvError(m)) /\ UNCHANGED csent
           ELSE \E ok \in BOOLEAN :
                  IF ok
                  THEN /\ csent' = Append(csent, UserauthPublicKey(Some(
                            [blob_len |-> ed25519_blob_len(64), header |-> "ssh-ed25519",
                             content |-> sign_userauth("client_keypair", session_id,
                                                       "user", "ssh-connection",
                                                       ed25519_pub)])))
                       /\ hs' = "success"
                       /\ cres' = NoRes
                  ELSE Fail(Err("TcpError")) /\ UNCHANGED csent
    /\ UNCHANGED <<eof, eof_reads, auth, peer_version, server_kexinit, session_id, encrypted>>

\* src/src/connection.rs:235-242: UserauthSuccess, and the connection is returned.
new_success ==
    /\ UNCHANGED <<runVars, recvVars, pktVars>>
    /\ hs = "success"
    /\ \E m \in HandshakeInputs :
        /\ crcvd' = Append(crcvd, m)
        /\ IF m.type # "UserauthSuccess"
           THEN Fail(RecvError(m))
           ELSE cres' = Ok /\ hs' = "connected"
    /\ UNCHANGED <<eof, eof_reads, auth, peer_version, server_kexinit, session_id, encrypted, csent>>

\* src/src/packets.rs:144-152: the packet writer without keys.
PacketWriter_new ==
    /\ w_packet = <<>>
    /\ w_packet_number = 0
    /\ w_negociated = FALSE
    /\ w_block_size = 8
    /\ w_keystream = 0
    /\ w_message = <<>>
    /\ sres = NoRes

\* Connection::new is called on a fresh socket with either kind of Auth; the packet
\* reader and writer it makes have no keys, src/src/connection.rs:66-67.
ConnInit ==
    /\ RunIdle
    /\ RecvIdle
    /\ PullIdle
    /\ ExtIdle
    /\ PacketWriter_new
    /\ hs = "start"
    /\ auth \in {"Password", "Ed25519"}
    /\ peer_version = <<>>
    /\ server_kexinit = NoMessage
    /\ session_id = NoMessage
    /\ encrypted = FALSE
    /\ csent = <<>>
    /\ crcvd = <<>>
    /\ eof = FALSE
    /\ eof_reads = 0
    /\ cres = NoRes

ConnNext ==
    \/ new_call
    \/ new_read_line
    \/ new_read_nothing
    \/ new_kexinit
    \/ new_kexdh
    \/ new_newkeys
    \/ new_service
    \/ new_pkok
    \/ new_success

SpecConn == ConnInit /\ [][ConnNext]_vars

\* Connection::new as a running program: the thread that called it is not stopped, so
\* as long as a step of new() is possible one is taken; a read that blocks returns
\* when the peer or the socket's timeout makes it return.
SpecBanner == ConnInit /\ [][ConnNext]_vars /\ WF_vars(ConnNext)

\* --------------------------------------------------------- PacketWriter::send
\* src/src/lib.rs:44-45
U32 == 4
U8 == 1

\* The length of an HMAC-SHA256 tag, what hmac.finalize() yields.
MacLength == 32

\* `n as u32` and u32::to_be_bytes: the low four bytes of n, the highest first.
to_be_bytes(n) ==
    <<(n \div 16777216) % 256, (n \div 65536) % 256, (n \div 256) % 256, n % 256>>

\* u32::from_be_bytes of the first four bytes of a buffer.
from_be_bytes(b) == b[1] * 16777216 + b[2] * 65536 + b[3] * 256 + b[4]

Zeros(n) == [i \in 1..n |-> 0]

\* Vec::resize(n, 0)
resize(v, n) == IF n <= Len(v) THEN SubSeq(v, 1, n) ELSE v \o Zeros(n - Len(v))

\* message.dump: a payload of n bytes, the message type first.
Dump(n) == [i \in 1..n |-> IF i = 1 THEN 94 ELSE 255]

\* The MAC of a packet; what it is computed over is not modelled here.
Tag == [i \in 1..MacLength |-> 170]

\* A send_raw that pads one byte short of the block.
padding_length_short(encrypted_length, block_size) ==
    block_size - (encrypted_length % block_size) - 1

\* src/src/packets.rs:170-173
padding_length(encrypted_length, block_size) ==
    IF encrypted_length % block_size = 0 THEN 0
    ELSE block_size - (encrypted_length % block_size)

\* src/src/packets.rs:160-183: the buffer send_raw builds for a payload, before it is
\* encrypted.
send_raw_packet(payload, block_size) ==
    LET dumped == Zeros(U32 + U8) \o payload
        packet_length == U8 + Len(dumped) - (U32 + U8)
        encrypted_length == U32 + packet_length
        pad == padding_length(encrypted_length, block_size)
        headed == to_be_bytes(packet_length + pad) \o <<pad % 256>>
                      \o SubSeq(dumped, U32 + U8 + 1, Len(dumped))
    IN resize(headed, encrypted_length + pad)

\* What the socket write of a packet may report.
WriteResults == {"ok", "WouldBlock", "TimedOut", "BrokenPipe"}

\* src/src/packets.rs:203-209: the result of send for the outcome of the socket write.
send_result(wr) ==
    IF wr = "ok" THEN Ok
    ELSE IF wr \in {"WouldBlock", "TimedOut"} THEN Err("Timeout")
    ELSE Err("TcpError")

\* src/src/packets.rs:159-209: send.  The packet is built, authenticated and encrypted
\* and the sequence number is advanced before the socket is written to.  What the
\* BufWriter keeps of a packet whose write failed is not modelled.
send ==
    /\ UNCHANGED <<runVars, recvVars, connVars, pullVars, extVars>>
    /\ sres # Err("TcpError")
    /\ w_keystream < MaxStream
    /\ \E n \in 1..MaxPayload, wr \in WriteResults :
        LET frame == send_raw_packet(Dump(n), w_block_size)
        IN /\ w_message' = Dump(n)
           /\ w_packet' = IF w_negociated THEN frame \o Tag ELSE frame
           /\ w_keystream' = IF w_negociated THEN w_keystream + Len(frame) ELSE w_keystream
           /\ w_packet_number' = (w_packet_number + 1) % U32Mod
           /\ sres' = send_result(wr)
    /\ UNCHANGED <<w_negociated, w_block_size>>

\* src/src/packets.rs:154-157 as src/src/connection.rs:168 calls it: the keys are
\* installed, with a block size of 32.
set_encryptor ==
    /\ UNCHANGED <<runVars, recvVars, connVars, pullVars, extVars>>
    /\ ~w_negociated
    /\ sres # Err("TcpError")
    /\ w_negociated' = TRUE
    /\ w_block_size' = 32
    /\ UNCHANGED <<w_packet, w_packet_number, w_keystream, w_message, sres>>

\* PacketWriter::new, src/src/packets.rs:144-152, on a connection that does nothing else.
SendInit ==
    /\ RunIdle
    /\ RecvIdle
    /\ ConnIdle
    /\ PullIdle
    /\ ExtIdle
    /\ w_packet = <<>>
    /\ w_packet_number = 0
    /\ w_negociated = FALSE
    /\ w_block_size = 8
    /\ w_keystream = 0
    /\ w_message = <<>>
    /\ sres = NoRes

SendNext ==
    \/ send
    \/ set_encryptor

SpecSend == SendInit /\ [][SendNext]_vars

\* ------------------------------------------------------ src/src/parsedump.rs
\* What a parse returns: the value and the bytes it took, or an error.
Parsed(v, n) == [tag |-> "Ok", val |-> v, inc |-> n, err |-> ""]
ParseErr(e) == [tag |-> "Err", val |-> None, inc |-> 0, err |-> e]

\* &bytes[i..]
From(bytes, i) == SubSeq(bytes, i + 1, Len(bytes))

\* too_short(), src/src/parsedump.rs:4-6
too_short == ParseErr("UnexpectedEof")

\* src/src/parsedump.rs:161-163 and 97-100
try_u32(src) ==
    IF Len(src) < U32 THEN too_short ELSE Parsed(from_be_bytes(src), U32)

\* src/src/parsedump.rs:87-90
parse_u8(bytes) == IF Len(bytes) < U8 THEN too_short ELSE Parsed(bytes[1], U8)

\* src/src/parsedump.rs:78-80
parse_bool(bytes) == IF Len(bytes) < U8 THEN too_short ELSE Parsed(bytes[1] # 0, U8)

\* src/src/parsedump.rs:82-84
dump_bool(b) == IF b THEN <<1>> ELSE <<0>>

\* src/src/parsedump.rs:118-121: a length and that many bytes.
parse_bytes(bytes) ==
    LET len == try_u32(bytes)
    IN IF len.tag = "Err" THEN len
       ELSE IF Len(bytes) < U32 + len.val THEN too_short
       ELSE Parsed(SubSeq(bytes, U32 + 1, U32 + len.val), U32 + len.val)

\* src/src/parsedump.rs:123-126
dump_bytes(b) == to_be_bytes(Len(b)) \o b

\* core::str::from_utf8, for the one and two byte forms of UTF-8; the strings of this
\* model hold no byte of a longer form.
RECURSIVE from_utf8(_)
from_utf8(b) ==
    IF b = <<>> THEN TRUE
    ELSE IF b[1] < 128 THEN from_utf8(From(b, 1))
    ELSE IF b[1] >= 194 /\ b[1] <= 223 /\ Len(b) >= 2 /\ b[2] >= 128 /\ b[2] <= 191
         THEN from_utf8(From(b, 2))
    ELSE FALSE

\* src/src/parsedump.rs:130-135
parse_str(bytes) ==
    LET slice == parse_bytes(bytes)
    IN IF slice.tag = "Err" THEN slice
       ELSE IF from_utf8(slice.val) THEN slice
       ELSE ParseErr("InvalidData")

\* ------------------------------------ the cipher and the MAC of a direction
\* The exclusive-or of two bytes.
RECURSIVE Xor(_, _)
Xor(a, b) ==
    IF a = 0 THEN b
    ELSE IF b = 0 THEN a
    ELSE 2 * Xor(a \div 2, b \div 2) + ((a + b) % 2)

\* Byte p of the keystream that the key and the IV of a direction determine.
KeyByte(p) == (37 * p + 11) % 256

\* StreamCipher::apply_keystream on a cipher that has produced pos bytes of keystream.
apply_keystream(bytes, pos) ==
    [i \in 1..Len(bytes) |-> Xor(bytes[i], KeyByte(pos + i - 1))]

\* A digest of j bytes: each byte and its place weigh in it.
RECURSIVE Mix(_, _)
Mix(d, j) == IF j = 0 THEN 7 ELSE (31 * Mix(d, j - 1) + d[j] + 1) % 65521

\* The tag of MacLength bytes for a digest.
Spread(digest) == [i \in 1..MacLength |-> ((digest \div i) + i) % 256]

\* Hmac::update with the sequence number, update with the packet, finalize: a tag of
\* MacLength bytes that the key of the direction, the number and the packet determine.
Hmac(number, packet) ==
    Spread(Mix(to_be_bytes(number) \o packet, U32 + Len(packet)))

\* ------------------------------------------- Run::poll over PacketReader::recv
\* What a read_exact of n bytes may report: the n bytes, or an error after fewer of them
\* were taken from the socket.
Timeouts == {"WouldBlock", "TimedOut"}

ReadOutcomes(n) ==
    {[kind |-> "ok", got |-> n]}
    \cup {[kind |-> k, got |-> g] :
            k \in Timeouts \cup {"ConnectionReset"}, g \in 0..Min(n - 1, MaxPartial)}

\* A recv that passes every socket error on as it is.
recv_result_unmapped(kind) == Err("TcpError")

\* src/src/packets.rs:128-130: the error of recv for a socket error of recv_raw.
recv_result(kind) ==
    IF kind \in Timeouts THEN Err("Timeout") ELSE Err("TcpError")

\* The reader and the server agree on where the packet starts and on the keystream.
Framed == at = Boundary /\ keystream = pulled

\* The messages the server sends a Run in this specification, Ignore among them.
PullInputs ==
    {[type |-> "Ignore"]}
    \cup {m \in PollInputs : m.type \in {"ChannelData", "ExitStatus", "ChannelClose"}}

\* poll() returns with what recv gave it: m is the message, or the Timeout of recv, and
\* `sent` tells whether the socket write poll makes, if any, completes.
poll_returns(m, sent) ==
    LET p == poll(m, sent)
    IN /\ client_window' = p.client_window
       /\ server_window' = p.server_window
       /\ exit_status' = p.exit_status
       /\ closed' = p.closed
       /\ out' = p.sends
       /\ res' = p.ev
       /\ rpc' = IF IsTransportError(p.ev) THEN "dead" ELSE "running"
       /\ received' = m
       /\ last_exit' = LastExit(m)
       /\ close_seen' = (close_seen \/ m.type = "ChannelClose")

\* poll() returns the error of recv, src/src/run.rs:152.
poll_fails(e) ==
    /\ res' = e
    /\ rpc' = IF IsTransportError(e) THEN "dead" ELSE "running"
    /\ UNCHANGED <<client_window, server_window, exit_status, closed, out, received,
                   last_exit, close_seen>>

\* A read of recv_raw failed with this socket error: src/src/packets.rs:43 and 128-130,
\* src/src/run.rs:150-152.
pull_fails(kind) ==
    /\ rd' = "idle"
    /\ rres' = recv_result(kind)
    /\ IF recv_result(kind) = Err("Timeout")
       THEN poll_returns([type |-> "Timeout"], TRUE)
       ELSE poll_fails(recv_result(kind))

\* src/src/run.rs:149, src/src/packets.rs:126-127 and 59: poll calls recv, recv calls
\* recv_raw, which empties its buffer.
pull_call ==
    /\ UNCHANGED <<connVars, sendVars, extVars>>
    /\ rpc = "running"
    /\ rd = "idle"
    /\ pulled < MaxStream
    /\ rd' = "length"
    /\ rres' = NoRes
    /\ op' = "poll"
    /\ res' = NoRes
    /\ out' = <<>>
    /\ received' = NoMessage
    /\ io' = NoIo
    /\ UNCHANGED <<rpc, next_client_channel, env, client_channel, confirmation, server_channel,
                   server_max_packet_size, server_window, client_window, exit_status,
                   closed, data, wbuf, npolls, starved, last_exit, close_seen>>
    /\ UNCHANGED <<packet_number, negociated, consumed, surfaced>>
    /\ UNCHANGED <<at, keystream, pulled, peer_number>>

\* src/src/packets.rs:63: the four bytes of the length are read, then decrypted.
pull_length ==
    /\ UNCHANGED <<connVars, sendVars, extVars>>
    /\ rd = "length"
    /\ Framed
    /\ pulled < MaxStream
    /\ \E o \in ReadOutcomes(U32) :
        /\ io' = o
        /\ pulled' = pulled + o.got
        /\ IF o.kind = "ok"
           THEN /\ keystream' = keystream + U32
                /\ at' = [seg |-> "body", off |-> 0]
                /\ rd' = "body"
                /\ UNCHANGED <<rres, client_window, server_window, exit_status, closed,
                               out, res, rpc, received, last_exit, close_seen>>
           ELSE /\ keystream' = keystream
                /\ at' = [seg |-> "length", off |-> o.got]
                /\ pull_fails(o.kind)
    /\ UNCHANGED <<op, next_client_channel, env, client_channel, confirmation,
                   server_channel, server_max_packet_size, data, wbuf, npolls, starved>>
    /\ UNCHANGED <<packet_number, negociated, consumed, surfaced, peer_number>>

\* src/src/packets.rs:63-123 when the reader has lost the frame or the keystream: the
\* bytes it takes for a length are noise, and so is what follows from them.
pull_garbage ==
    /\ UNCHANGED <<connVars, sendVars, extVars>>
    /\ rd = "length"
    /\ ~Framed
    /\ at' = [seg |-> "lost", off |-> 0]
    /\ io' = NoIo
    /\ \E how \in {"InvalidData", "WouldBlock", "ConnectionReset"} :
        IF how = "InvalidData"
        THEN /\ rd' = "idle"
             /\ rres' = Err("InvalidData")
             /\ poll_fails(Err("InvalidData"))
        ELSE pull_fails(how)
    /\ UNCHANGED <<op, next_client_channel, env, client_channel, confirmation,
                   server_channel, server_max_packet_size, data, wbuf, npolls, starved>>
    /\ UNCHANGED <<packet_number, negociated, consumed, surfaced, peer_number, keystream,
                   pulled>>

\* src/src/packets.rs:67: packet_length bytes are read, then decrypted.
pull_body ==
    /\ UNCHANGED <<connVars, sendVars, extVars>>
    /\ rd = "body"
    /\ \E o \in ReadOutcomes(WireLength) :
        /\ io' = o
        /\ pulled' = pulled + o.got
        /\ IF o.kind = "ok"
           THEN /\ keystream' = keystream + WireLength
                /\ at' = [seg |-> "mac", off |-> 0]
                /\ rd' = "mac"
                /\ UNCHANGED <<rres, client_window, server_window, exit_status, closed,
                               out, res, rpc, received, last_exit, close_seen>>
           ELSE /\ keystream' = keystream
                /\ at' = [seg |-> "body", off |-> o.got]
                /\ pull_fails(o.kind)
    /\ UNCHANGED <<op, next_client_channel, env, client_channel, confirmation,
                   server_channel, server_max_packet_size, data, wbuf, npolls, starved>>
    /\ UNCHANGED <<packet_number, negociated, consumed, surfaced, peer_number>>

\* src/src/packets.rs:70-123 and src/src/run.rs:155-205: the MAC is read and checked
\* against the sequence number, the packet is counted, an Ignore sends recv_raw back to
\* read the next packet, any other message goes to poll.
pull_mac ==
    /\ UNCHANGED <<connVars, sendVars, extVars>>
    /\ rd = "mac"
    /\ \E o \in ReadOutcomes(MacLength) :
        /\ io' = o
        /\ IF o.kind # "ok"
           THEN /\ at' = [seg |-> "mac", off |-> o.got]
                /\ pull_fails(o.kind)
                /\ UNCHANGED <<packet_number, peer_number>>
           ELSE \E m \in PullInputs, mac_ok \in BOOLEAN :
                    \E sent \in WriteOutcomes(m) :
                   /\ Conforming(m)
                   /\ at' = Boundary
                   /\ peer_number' = (peer_number + 1) % U32Mod
                   /\ IF ~(mac_ok /\ packet_number = peer_number)
                      THEN /\ rd' = "idle"
                           /\ rres' = Err("InvalidData")
                           /\ poll_fails(Err("InvalidData"))
                           /\ UNCHANGED packet_number
                      ELSE /\ packet_number' = (packet_number + 1) % U32Mod
                           /\ IF m.type = "Ignore"
                              THEN /\ rd' = "length"
                                   /\ UNCHANGED <<rres, client_window, server_window,
                                                  exit_status, closed, out, res, rpc,
                                                  received, last_exit, close_seen>>
                              ELSE /\ rd' = "idle"
                                   /\ rres' = Ok
                                   /\ poll_returns(m, sent)
    /\ UNCHANGED <<op, next_client_channel, env, client_channel, confirmation,
                   server_channel, server_max_packet_size, data, wbuf, npolls, starved>>
    /\ UNCHANGED <<negociated, consumed, surfaced, keystream, pulled>>

\* An accepted Run on a connection whose keys are installed, the reader between two
\* packets of the server, in step with it.
PullInit ==
    /\ RunAccepted
    /\ ConnIdle
    /\ SendIdle
    /\ ExtIdle
    /\ rd = "idle"
    /\ packet_number = U32Mod - 1
    /\ negociated = TRUE
    /\ consumed = <<>>
    /\ surfaced = <<>>
    /\ rres = NoRes
    /\ at = Boundary
    /\ keystream = 0
    /\ pulled = 0
    /\ peer_number = U32Mod - 1
    /\ io = NoIo

PullNext ==
    \/ pull_call
    \/ pull_length
    \/ pull_garbage
    \/ pull_body
    \/ pull_mac

SpecPull == PullInit /\ [][PullNext]_vars

\* ----------------------------- PacketWriter::send into PacketReader::recv_raw
\* The parser the macro writes for GlobalRequest, src/src/messages.rs:163-166 and
\* src/src/parsedump.rs:17-35, on a payload whose type byte is GlobalRequest.
parse_GlobalRequest(payload) ==
    LET request_name == parse_str(From(payload, U8))
    IN IF request_name.tag = "Err" THEN request_name
       ELSE LET want_reply == parse_bool(From(payload, U8 + request_name.inc))
            IN IF want_reply.tag = "Err" THEN want_reply
               ELSE Parsed([request_name |-> request_name.val,
                            want_reply |-> want_reply.val],
                           U8 + request_name.inc + want_reply.inc)

\* The thread panics: an index is out of the bounds of its slice.
Panic == Res("Panic", "", 0, None)

\* recv_raw does not return: it goes on to read the next packet.
Filtered == Res("Filtered", "", 0, None)

\* A sequence number that stops at its maximum.
saturating_add(number) == Min(number + 1, U32Mod - 1)

\* u32::wrapping_add(1), src/src/packets.rs:100 and 195.
wrapping_add(number) == (number + 1) % U32Mod

\* A decryptor that is not advanced over the length field.
decrypted_body_only(packet_length) == packet_length

\* src/src/packets.rs:63 and 67: the bytes recv_raw decrypts of a packet.
decrypted(packet_length) == U32 + packet_length

\* src/src/packets.rs:58-123: recv_raw on the bytes s the socket holds, which are one
\* packet or more, for a reader with this sequence number, these keys or none, this
\* mac_size and a decryptor that has produced ks bytes of keystream.  It yields what
\* recv_raw returns for the first packet, the slice returned, the bytes taken from the
\* socket and the reader afterwards.
recv_raw_bytes(s, number, keyed, macsz, ks) ==
    LET decrypt(bytes, pos) == IF keyed THEN apply_keystream(bytes, pos) ELSE bytes
        head == decrypt(SubSeq(s, 1, U32), ks)
        packet_length == from_be_bytes(head)
        body == decrypt(SubSeq(s, U32 + 1, U32 + packet_length), ks + U32)
        mac == SubSeq(s, U32 + packet_length + 1, U32 + packet_length + macsz)
        packet == head \o body \o mac
        judged == [res |-> Ok, payload |-> <<>>, taken |-> Len(packet),
                   keystream |-> IF keyed THEN ks + decrypted(packet_length) ELSE ks,
                   packet_number |-> number, packet |-> packet, fed |-> None,
                   accepted |-> FALSE]
    IN IF Len(packet) < U32 + 1 THEN [judged EXCEPT !.res = Panic]
       ELSE
       LET padding == packet[U32 + 1]
           payload_length == packet_length - padding - U8
           payload_offset == U32 + U8
           packet_hmac == From(packet, packet_length + U32)
           checked == IF keyed THEN [judged EXCEPT !.fed = Some(number)]
                      ELSE judged
           counted == [checked EXCEPT !.packet_number = wrapping_add(number),
                                      !.accepted = TRUE]
           payload == SubSeq(packet, payload_offset + 1, payload_offset + payload_length)
       IN IF payload_length < 0 THEN [judged EXCEPT !.res = Err("InvalidData")]
          ELSE IF keyed /\ Len(packet_hmac) # macsz
          THEN [checked EXCEPT !.res = Err("InvalidData")]
          ELSE IF keyed /\ packet_hmac # Hmac(number,
                                             SubSeq(packet, 1, packet_length + U32))
          THEN [checked EXCEPT !.res = Err("InvalidData")]
          ELSE IF Len(packet) < payload_offset + 1 THEN [counted EXCEPT !.res = Panic]
          ELSE
          LET msg_type == packet[payload_offset + 1]
          IN IF msg_type \notin DOMAIN MessageTypes
             THEN [counted EXCEPT !.res = Err("UnknownMessageType")]
             ELSE IF MessageTypes[msg_type] = "Ignore"
             THEN [counted EXCEPT !.res = Filtered]
             ELSE IF MessageTypes[msg_type] = "GlobalRequest"
             THEN LET global_req == parse_GlobalRequest(payload)
                  IN IF global_req.tag = "Err"
                     THEN [counted EXCEPT !.res = Err(global_req.err)]
                     ELSE IF global_req.val.want_reply
                     THEN [counted EXCEPT !.payload = payload]
                     ELSE [counted EXCEPT !.res = Filtered]
             ELSE [counted EXCEPT !.payload = payload]

\* The payloads the writer is given: channel data of one byte and of a length that
\* leaves no room for padding under the keys, Newkeys, global requests that want a
\* reply or none, and an Ignore.
LoopPayloads ==
    {<<94, 0, 0, 0, 5, 0, 0, 0, 1, 65>>,
     <<94, 0, 0, 0, 5, 0, 0, 0, 18>> \o [i \in 1..18 |-> 64 + i],
     <<21>>,
     <<80, 0, 0, 0, 1, 97, 0>>,
     <<80, 0, 0, 0, 1, 97, 1>>,
     <<2>>}

\* The packets each end has counted when the model takes the connection up: none, or
\* as many as leave two before the sequence numbers wrap.
LoopStarts == {0, U32Mod - 2}

\* src/src/packets.rs:159-209: send, on a socket that takes every byte.  The packet is
\* built, authenticated under the sequence number, encrypted and written.
loop_send ==
    /\ UNCHANGED <<runVars, connVars, codecVars, quickVars, chanVars>>
    /\ \E first \in LoopStarts : w_count >= first /\ w_count < first + MaxSent
    /\ Len(inflight) < MaxInflight
    /\ \E payload \in LoopPayloads :
        LET frame == send_raw_packet(payload, w_block_size)
            buffer == IF w_negociated
                      THEN apply_keystream(frame, w_keystream)
                               \o Hmac(w_packet_number, frame)
                      ELSE frame
        IN /\ w_message' = payload
           /\ w_packet' = buffer
           /\ w_keystream' = IF w_negociated THEN w_keystream + Len(frame) ELSE w_keystream
           /\ w_fed' = IF w_negociated THEN Some(w_packet_number) ELSE None
           /\ stream' = stream \o buffer
           /\ inflight' = Append(inflight, payload)
    /\ w_packet_number' = wrapping_add(w_packet_number)
    /\ w_count' = w_count + 1
    /\ sres' = Ok
    /\ UNCHANGED <<w_negociated, w_block_size>>
    /\ UNCHANGED <<recvVars, pullVars>>
    /\ UNCHANGED <<r_packet, r_mac_size, r_payload, r_count, r_fed>>

\* src/src/packets.rs:154-157 and 31-35 as src/src/connection.rs:168-169 calls them:
\* the writer and the reader get their keys at the same place of the stream.
loop_keys ==
    /\ UNCHANGED <<runVars, connVars, codecVars, quickVars, chanVars>>
    /\ ~w_negociated
    /\ stream = <<>>
    /\ rd = "idle"
    /\ w_negociated' = TRUE
    /\ w_block_size' = 32
    /\ negociated' = TRUE
    /\ r_mac_size' = 32
    /\ UNCHANGED <<w_packet, w_packet_number, w_keystream, w_message, sres>>
    /\ UNCHANGED <<rd, packet_number, consumed, surfaced, rres>>
    /\ UNCHANGED pullVars
    /\ UNCHANGED <<stream, inflight, r_packet, r_payload, w_count, r_count, w_fed, r_fed>>

\* src/src/packets.rs:58-59: a call of recv_raw.
loop_call ==
    /\ UNCHANGED <<runVars, connVars, sendVars, codecVars, quickVars, chanVars>>
    /\ rd = "idle"
    /\ rres # Panic
    /\ rd' = "recv_raw"
    /\ rres' = NoRes
    /\ r_packet' = <<>>
    /\ r_payload' = <<>>
    /\ UNCHANGED <<packet_number, negociated, consumed, surfaced>>
    /\ UNCHANGED pullVars
    /\ UNCHANGED <<stream, inflight, r_mac_size, w_count, r_count, w_fed, r_fed>>

\* src/src/packets.rs:59-123: recv_raw reads the next packet of the stream; a packet it
\* filters leaves it reading.
loop_packet ==
    /\ UNCHANGED <<runVars, connVars, sendVars, codecVars, quickVars, chanVars>>
    /\ rd = "recv_raw"
    /\ stream # <<>>
    /\ LET j == recv_raw_bytes(stream, packet_number, negociated, r_mac_size, keystream)
       IN /\ stream' = From(stream, j.taken)
          /\ pulled' = pulled + j.taken
          /\ keystream' = j.keystream
          /\ packet_number' = j.packet_number
          /\ r_count' = IF j.accepted THEN r_count + 1 ELSE r_count
          /\ r_packet' = j.packet
          /\ r_payload' = j.payload
          /\ r_fed' = j.fed
          /\ IF j.res = Filtered
             THEN UNCHANGED <<rd, rres>>
             ELSE rd' = "idle" /\ rres' = j.res
    /\ inflight' = Tail(inflight)
    /\ UNCHANGED <<negociated, consumed, surfaced>>
    /\ UNCHANGED <<at, peer_number, io>>
    /\ UNCHANGED <<r_mac_size, w_count, w_fed>>

\* A writer and a reader joined by a socket that holds nothing: as PacketWriter::new and
\* PacketReader::new make them, src/src/packets.rs:144-152 and 20-29, or after packets
\* that were sent and received without the keys.
LoopInit ==
    /\ RunIdle
    /\ ConnIdle
    /\ PullIdle
    /\ CodecIdle
    /\ QuickIdle
    /\ ChanIdle
    /\ \E first \in LoopStarts :
        /\ w_count = first
        /\ r_count = first
        /\ w_packet_number = first
        /\ packet_number = first
    /\ w_packet = <<>>
    /\ w_negociated = FALSE
    /\ w_block_size = 8
    /\ w_keystream = 0
    /\ w_message = <<>>
    /\ sres = NoRes
    /\ rd = "idle"
    /\ negociated = FALSE
    /\ consumed = <<>>
    /\ surfaced = <<>>
    /\ rres = NoRes
    /\ stream = <<>>
    /\ inflight = <<>>
    /\ r_packet = <<>>
    /\ r_mac_size = 0
    /\ r_payload = <<>>
    /\ w_fed = None
    /\ r_fed = None

LoopNext ==
    \/ loop_send
    \/ loop_keys
    \/ loop_call
    \/ loop_packet

SpecLoop == LoopInit /\ [][LoopNext]_vars

\* ------------------------------- PacketReader::recv_raw on what a peer may send
\* The packets of a peer that holds the keys but frames as it likes: the length field,
\* the padding byte and the type byte are its choice, the rest is zero.
WireLengths == {0, 1, 2, WireLength}
WirePaddings == {0, 1, 4, WireLength}
WireTypes == {2, 94}

Crafted(packet_length, padding, typ) ==
    to_be_bytes(packet_length) \o SubSeq(<<padding, typ>> \o Zeros(WireLength), 1, packet_length)

\* A tag that is not the tag of the packet: its first byte is off by one.
Forged(tag) == [tag EXCEPT ![1] = (tag[1] + 1) % 256]

\* The peer writes a packet to the socket: under the keys it encrypts it and appends
\* the MAC for its sequence number, or a forged one.
wire_send ==
    /\ UNCHANGED <<runVars, connVars, codecVars, quickVars, chanVars>>
    /\ w_count < MaxSent
    /\ stream = <<>>
    /\ \E packet_length \in WireLengths, padding \in WirePaddings, typ \in WireTypes,
          mac_ok \in IF w_negociated THEN BOOLEAN ELSE {TRUE} :
        LET clear == Crafted(packet_length, padding, typ)
            tag == Hmac(w_packet_number, clear)
            buffer == IF w_negociated
                      THEN apply_keystream(clear, w_keystream)
                               \o (IF mac_ok THEN tag ELSE Forged(tag))
                      ELSE clear
        IN /\ w_message' = clear
           /\ w_packet' = buffer
           /\ w_keystream' = IF w_negociated THEN w_keystream + Len(clear) ELSE w_keystream
           /\ w_fed' = IF w_negociated THEN Some(w_packet_number) ELSE None
           /\ stream' = buffer
           /\ inflight' = <<clear>>
    /\ w_packet_number' = wrapping_add(w_packet_number)
    /\ w_count' = w_count + 1
    /\ sres' = Ok
    /\ UNCHANGED <<w_negociated, w_block_size>>
    /\ UNCHANGED <<recvVars, pullVars>>
    /\ UNCHANGED <<r_packet, r_mac_size, r_payload, r_count, r_fed>>

\* A reader and its peer at the start of the connection or right after both have
\* installed the keys, src/src/connection.rs:168-169.
WireInit ==
    /\ RunIdle
    /\ ConnIdle
    /\ PullIdle
    /\ CodecIdle
    /\ QuickIdle
    /\ ChanIdle
    /\ \E keyed \in BOOLEAN :
        /\ w_negociated = keyed
        /\ negociated = keyed
        /\ w_block_size = IF keyed THEN 32 ELSE 8
        /\ r_mac_size = IF keyed THEN 32 ELSE 0
    /\ w_count = 0
    /\ r_count = 0
    /\ w_packet_number = 0
    /\ packet_number = 0
    /\ w_packet = <<>>
    /\ w_keystream = 0
    /\ w_message = <<>>
    /\ sres = NoRes
    /\ rd = "idle"
    /\ consumed = <<>>
    /\ surfaced = <<>>
    /\ rres = NoRes
    /\ stream = <<>>
    /\ inflight = <<>>
    /\ r_packet = <<>>
    /\ r_payload = <<>>
    /\ w_fed = None
    /\ r_fed = None

WireNext ==
    \/ wire_send
    \/ loop_call
    \/ loop_packet

SpecWire == WireInit /\ [][WireNext]_vars

\* ---------------------------------------------- the records and their two codecs
\* str::as_bytes, for the strings the codec spells out and the ones the model draws.
as_bytes(s) ==
    CASE s = "" -> <<>>
      [] s = "exec" -> <<101, 120, 101, 99>>
      [] s = "env" -> <<101, 110, 118>>
      [] s = "exit-status" -> <<101, 120, 105, 116, 45, 115, 116, 97, 116, 117, 115>>
      [] s = "shell" -> <<115, 104, 101, 108, 108>>
      [] s = "publickey" -> <<112, 117, 98, 108, 105, 99, 107, 101, 121>>
      [] s = "password" -> <<112, 97, 115, 115, 119, 111, 114, 100>>
      [] s = "ssh-ed25519" -> <<115, 115, 104, 45, 101, 100, 50, 53, 53, 49, 57>>
      [] s = "ssh-connection" ->
            <<115, 115, 104, 45, 99, 111, 110, 110, 101, 99, 116, 105, 111, 110>>
      [] s = "none" -> <<110, 111, 110, 101>>
      [] s = "ls" -> <<108, 115>>

\* What a dump leaves: the bytes in the sink, or an error.
Dumped(bytes) == [tag |-> "Ok", bytes |-> bytes, err |-> ""]
DumpErr(e) == [tag |-> "Err", bytes |-> <<>>, err |-> e]

\* MessageType as u8, the inverse of MessageType::try_from (src/src/messages.rs:306-336)
type_byte(name) == CHOOSE x \in DOMAIN MessageTypes : MessageTypes[x] = name

\* check_msg_type!, src/src/messages.rs:12-22: the error it returns, "" when the type
\* byte is the expected one.  On another type the bytes go through Message::parse
\* first, which refuses the types it does not parse.
check_msg_type(expected, bytes) ==
    IF Len(bytes) < U8 THEN "UnexpectedEof"
    ELSE IF bytes[1] \notin DOMAIN MessageTypes THEN "UnknownMessageType"
    ELSE IF MessageTypes[bytes[1]] = expected THEN ""
    ELSE IF MessageTypes[bytes[1]] \in Unparsed THEN "Unimplemented"
    ELSE "UnexpectedMessageType"

\* parse_dump_struct!, src/src/messages.rs:57-190: the fields of each record, by type.
Fields(name) ==
    CASE name = "Unimplemented" -> <<"u32">>
      [] name = "Kexinit" ->
            <<"cookie", "str", "str", "str", "str", "str", "str", "str", "str", "str",
              "str", "bool", "u32">>
      [] name = "KexdhInit" -> <<"bytes">>
      [] name = "KexdhReply" -> <<"Blob", "bytes", "Blob">>
      [] name = "Newkeys" -> <<>>
      [] name = "ServiceRequest" -> <<"str">>
      [] name = "ServiceAccept" -> <<"str">>
      [] name = "Disconnect" -> <<"reason", "str", "str">>
      [] name = "UserauthSuccess" -> <<>>
      [] name = "UserauthPkOk" -> <<"str", "Blob">>
      [] name = "UserauthFailure" -> <<"str", "bool">>
      [] name = "ChannelOpen" -> <<"str", "u32", "u32", "u32">>
      [] name = "ChannelOpenConfirmation" -> <<"u32", "u32", "u32", "u32">>
      [] name = "ChannelOpenFailure" -> <<"u32", "u32", "str", "str">>
      [] name = "ChannelData" -> <<"u32", "bytes">>
      [] name = "ChannelExtendedData" -> <<"u32", "u32", "bytes">>
      [] name = "ChannelEof" -> <<"u32">>
      [] name = "ChannelClose" -> <<"u32">>
      [] name = "ChannelSuccess" -> <<"u32">>
      [] name = "ChannelFailure" -> <<"u32">>
      [] name = "GlobalRequest" -> <<"str", "bool">>
      [] name = "ChannelWindowAdjust" -> <<"u32", "u32">>
      [] name = "Blob" -> <<"u32", "str", "bytes">>

\* MessageType::from_struct_name, src/src/messages.rs:339-375: Blob has no type byte.
from_struct_name(name) == IF name = "Blob" THEN None ELSE Some(type_byte(name))

\* [u8; 16], src/src/parsedump.rs:106-114
CookieLen == 16

\* DisconnectReasonCode::parse, src/src/messages.rs:465-489
ReasonCodes == 1..15

\* The dump of one field, by its type, and of the fields of a record from the i-th on
\* (src/src/parsedump.rs:37-45).
RECURSIVE dump_fields(_, _, _)
dump_field(type, v) ==
    CASE type = "u32" -> to_be_bytes(v)
      [] type = "bool" -> dump_bool(v)
      [] type = "str" -> dump_bytes(v)
      [] type = "bytes" -> dump_bytes(v)
      [] type = "cookie" -> v
      [] type = "reason" -> <<v>>
      [] type = "Blob" -> dump_fields(Fields("Blob"), v, 1)

dump_fields(types, values, i) ==
    IF i > Len(types) THEN <<>>
    ELSE dump_field(types[i], values[i]) \o dump_fields(types, values, i + 1)

\* The parse of one field, by its type, and of the fields of a record from the i-th
\* on (src/src/parsedump.rs:26-34).
RECURSIVE parse_fields(_, _, _)
parse_field(type, bytes) ==
    CASE type = "u32" -> try_u32(bytes)
      [] type = "bool" -> parse_bool(bytes)
      [] type = "str" -> parse_str(bytes)
      [] type = "bytes" -> parse_bytes(bytes)
      [] type = "cookie" ->
            IF Len(bytes) < CookieLen THEN too_short
            ELSE Parsed(SubSeq(bytes, 1, CookieLen), CookieLen)
      [] type = "reason" ->
            IF Len(bytes) < U8 THEN too_short
            ELSE IF bytes[1] \in ReasonCodes THEN Parsed(bytes[1], U8)
            ELSE ParseErr("InvalidData")
      [] type = "Blob" -> parse_fields(Fields("Blob"), bytes, 1)

parse_fields(types, bytes, i) ==
    IF i > Len(types) THEN Parsed(<<>>, 0)
    ELSE LET field == parse_field(types[i], bytes)
             rest == parse_fields(types, From(bytes, field.inc), i + 1)
         IN IF field.tag = "Err" THEN field
            ELSE IF rest.tag = "Err" THEN rest
            ELSE Parsed(<<field.val>> \o rest.val, field.inc + rest.inc)

\* A record of parse_dump_struct!: its name and the values of its fields, in order.
Struct(name, values) == [struct |-> name, fields |-> values]

\* ParseDump::dump of a record of parse_dump_struct!, src/src/parsedump.rs:37-45
struct_dump(R) ==
    LET head == IF from_struct_name(R.struct) = None THEN <<>>
                ELSE from_struct_name(R.struct)
    IN Dumped(head \o dump_fields(Fields(R.struct), R.fields, 1))

\* ParseDump::parse of a record of parse_dump_struct!, src/src/parsedump.rs:17-35
struct_parse(name, bytes) ==
    LET typed == from_struct_name(name) # None
        refused == IF typed THEN check_msg_type(name, bytes) ELSE ""
        i == IF typed THEN U8 ELSE 0
        fields == parse_fields(Fields(name), From(bytes, i), 1)
    IN IF refused # "" THEN ParseErr(refused)
       ELSE IF fields.tag = "Err" THEN fields
       ELSE Parsed(Struct(name, fields.val), i + fields.inc)

\* The variants of ChannelRequest, src/src/channelrequest.rs:6-28
ChannelRequest_Exec(recipient_channel, want_reply, command) ==
    [variant |-> "Exec", recipient_channel |-> recipient_channel,
     want_reply |-> want_reply, command |-> command]

ChannelRequest_EnvironmentVariable(recipient_channel, want_reply, name, value) ==
    [variant |-> "EnvironmentVariable", recipient_channel |-> recipient_channel,
     want_reply |-> want_reply, name |-> name, value |-> value]

ChannelRequest_ExitStatus(recipient_channel, status) ==
    [variant |-> "ExitStatus", recipient_channel |-> recipient_channel,
     exit_status |-> status]

ChannelRequest_Other(recipient_channel, request_type, want_reply) ==
    [variant |-> "Other", recipient_channel |-> recipient_channel,
     request_type |-> request_type, want_reply |-> want_reply]

\* ChannelRequest::dump, src/src/channelrequest.rs:89-131
ChannelRequest_dump(R) ==
    LET head == <<type_byte("ChannelRequest")>> \o to_be_bytes(R.recipient_channel)
    IN CASE R.variant = "Exec" ->
                Dumped(head \o dump_bytes(as_bytes("exec")) \o dump_bool(R.want_reply)
                       \o dump_bytes(R.command))
         [] R.variant = "ExitStatus" ->
                Dumped(head \o dump_bytes(as_bytes("exit-status")) \o dump_bool(FALSE)
                       \o to_be_bytes(R.exit_status))
         [] R.variant = "EnvironmentVariable" ->
                Dumped(head \o dump_bytes(as_bytes("env")) \o dump_bool(R.want_reply)
                       \o dump_bytes(R.name) \o dump_bytes(R.value))
         [] R.variant = "Other" -> DumpErr("InvalidData")

\* ChannelRequest::parse, src/src/channelrequest.rs:31-87
ChannelRequest_parse(bytes) ==
    LET refused == check_msg_type("ChannelRequest", bytes)
        head == parse_fields(<<"u32", "str", "bool">>, From(bytes, U8), 1)
        i == U8 + head.inc
        recipient_channel == head.val[1]
        request_type == head.val[2]
        want_reply == head.val[3]
        command == parse_str(From(bytes, i))
        pair == parse_fields(<<"str", "str">>, From(bytes, i), 1)
        status == try_u32(From(bytes, i))
    IN IF refused # "" THEN ParseErr(refused)
       ELSE IF head.tag = "Err" THEN head
       ELSE IF request_type = as_bytes("exec") THEN
            IF command.tag = "Err" THEN command
            ELSE Parsed(ChannelRequest_Exec(recipient_channel, want_reply, command.val), i + command.inc)
       ELSE IF request_type = as_bytes("env") THEN
            IF pair.tag = "Err" THEN pair
            ELSE Parsed(ChannelRequest_EnvironmentVariable(recipient_channel, want_reply, pair.val[1],
                                            pair.val[2]), i + pair.inc)
       ELSE IF request_type = as_bytes("exit-status") THEN
            IF want_reply THEN ParseErr("InvalidData")
            ELSE IF status.tag = "Err" THEN status
            ELSE Parsed(ChannelRequest_ExitStatus(recipient_channel, status.val),
                        i + status.inc)
       ELSE Parsed(ChannelRequest_Other(recipient_channel, request_type, want_reply), i)

\* The variants of UserauthRequest, src/src/userauth.rs:28-42
UserauthRequest_PublicKey(username, service_name, algorithm, blob, signature) ==
    [variant |-> "PublicKey", username |-> username, service_name |-> service_name,
     algorithm |-> algorithm, blob |-> blob, signature |-> signature]

UserauthRequest_Password(username, service_name, password, new_password) ==
    [variant |-> "Password", username |-> username, service_name |-> service_name,
     password |-> password, new_password |-> new_password]

\* UserauthRequest::dump, src/src/userauth.rs:104-144
UserauthRequest_dump(R) ==
    LET head == <<type_byte("UserauthRequest")>> \o dump_bytes(R.username)
                \o dump_bytes(R.service_name)
    IN CASE R.variant = "PublicKey" ->
                Dumped(head \o dump_bytes(as_bytes("publickey"))
                       \o dump_bool(R.signature # None) \o dump_bytes(R.algorithm)
                       \o dump_field("Blob", R.blob)
                       \o (IF R.signature # None
                           THEN dump_field("Blob", R.signature[1]) ELSE <<>>))
         [] R.variant = "Password" ->
                Dumped(head \o dump_bytes(as_bytes("password"))
                       \o dump_bool(R.new_password # None) \o dump_bytes(R.password)
                       \o (IF R.new_password # None
                           THEN dump_bytes(R.new_password[1]) ELSE <<>>))

\* UserauthRequest::parse, src/src/userauth.rs:45-102
UserauthRequest_parse(bytes) ==
    LET refused == check_msg_type("UserauthRequest", bytes)
        head == parse_fields(<<"str", "str", "str", "bool">>, From(bytes, U8), 1)
        i == U8 + head.inc
        username == head.val[1]
        service_name == head.val[2]
        method_name == head.val[3]
        has_option == head.val[4]
        key == parse_fields(<<"str", "Blob">>, From(bytes, i), 1)
        signature == parse_field("Blob", From(bytes, i + key.inc))
        password == parse_str(From(bytes, i))
        new_password == parse_str(From(bytes, i + password.inc))
    IN IF refused # "" THEN ParseErr(refused)
       ELSE IF head.tag = "Err" THEN head
       ELSE IF method_name = as_bytes("publickey") THEN
            IF key.tag = "Err" THEN key
            ELSE IF ~has_option THEN
                Parsed(UserauthRequest_PublicKey(username, service_name, key.val[1], key.val[2], None),
                       i + key.inc)
            ELSE IF signature.tag = "Err" THEN signature
            ELSE Parsed(UserauthRequest_PublicKey(username, service_name, key.val[1], key.val[2],
                                  Some(signature.val)), i + key.inc + signature.inc)
       ELSE IF method_name = as_bytes("password") THEN
            IF password.tag = "Err" THEN password
            ELSE IF ~has_option THEN
                Parsed(UserauthRequest_Password(username, service_name, password.val, None),
                       i + password.inc)
            ELSE IF new_password.tag = "Err" THEN new_password
            ELSE Parsed(UserauthRequest_Password(username, service_name, password.val,
                                 Some(new_password.val)),
                        i + password.inc + new_password.inc)
       ELSE ParseErr("Unsupported")

\* The length UnsignedMpInt::dump writes ahead of the content, src/src/messages.rs:429
mpint_len_unsigned(content, prevent_sign) == Len(content)

mpint_len(content, prevent_sign) == Len(content) + (IF prevent_sign THEN 1 ELSE 0)

\* UnsignedMpInt::dump, src/src/messages.rs:425-441
UnsignedMpInt_dump(x) ==
    LET has_non_zero == \E i \in 1..Len(x) : x[i] # 0
        prevent_sign == x[1] >= 128
        len == mpint_len(x, prevent_sign)
    IN IF has_non_zero
       THEN Dumped(to_be_bytes(len) \o (IF prevent_sign THEN <<0>> ELSE <<>>) \o x)
       ELSE Dumped(to_be_bytes(0))

\* UnsignedMpInt::parse, src/src/messages.rs:420-423
UnsignedMpInt_parse(bytes) ==
    LET len == try_u32(bytes)
        total == U32 + len.val
    IN IF len.tag = "Err" THEN len
       ELSE IF Len(bytes) < total THEN too_short
       ELSE Parsed(SubSeq(bytes, U32 + 1, total), total)

\* The size of Keypair::to_bytes: the secret then the public key, 32 bytes each.
KeypairLen == 64
PublicLen == 32

\* WORD_TO_HEX, src/src/keygen.rs:28
WORD_TO_HEX == <<48, 49, 50, 51, 52, 53, 54, 55, 56, 57, 97, 98, 99, 100, 101, 102>>

\* HEX_TO_WORD, src/src/keygen.rs:5-26
HEX_TO_WORD(c) ==
    IF c >= 48 /\ c <= 57 THEN c - 48
    ELSE IF c >= 65 /\ c <= 70 THEN c - 55
    ELSE IF c >= 97 /\ c <= 102 THEN c - 87
    ELSE 255

\* create_ed25519_keypair, src/src/keygen.rs:34-42: two digits a byte, high word first.
encode_hex(keypair) ==
    [i \in 1..(2 * Len(keypair)) |->
        IF i % 2 = 1 THEN WORD_TO_HEX[(keypair[(i + 1) \div 2] \div 16) + 1]
        ELSE WORD_TO_HEX[(keypair[i \div 2] % 16) + 1]]

\* decode_hex::<N>, src/src/keygen.rs:67-86
decode_hex(hex, N) ==
    IF Len(hex) = N * 2
    THEN IF \E i \in 1..Len(hex) : HEX_TO_WORD(hex[i]) = 255 THEN None
         ELSE Some([i \in 1..N |->
                        HEX_TO_WORD(hex[2 * i - 1]) * 16 + HEX_TO_WORD(hex[2 * i])])
    ELSE None

\* The alphabet of base64::engine::general_purpose::STANDARD_NO_PAD
Base64Char(w) ==
    IF w < 26 THEN 65 + w
    ELSE IF w < 52 THEN 97 + (w - 26)
    ELSE IF w < 62 THEN 48 + (w - 52)
    ELSE IF w = 62 THEN 43
    ELSE 47

\* STANDARD_NO_PAD.encode_string: four characters for three bytes, and no padding
\* after the two or three characters of a last group of one or two bytes.
RECURSIVE encode_string(_)
encode_string(b) ==
    IF b = <<>> THEN <<>>
    ELSE IF Len(b) = 1 THEN <<Base64Char(b[1] \div 4), Base64Char((b[1] % 4) * 16)>>
    ELSE IF Len(b) = 2
         THEN <<Base64Char(b[1] \div 4), Base64Char((b[1] % 4) * 16 + b[2] \div 16),
                Base64Char((b[2] % 16) * 4)>>
    ELSE <<Base64Char(b[1] \div 4), Base64Char((b[1] % 4) * 16 + b[2] \div 16),
           Base64Char((b[2] % 16) * 4 + b[3] \div 64), Base64Char(b[3] % 64)>>
         \o encode_string(From(b, 3))

\* A panic in place of a return value.
Unwound == [tag |-> "Panic", bytes |-> <<>>, err |-> ""]

\* dump_ed25519_pk_openssh, src/src/keygen.rs:46-65.  The unwrap of line 48 panics
\* on a None; Keypair::from_bytes takes the bytes of a keypair as they are.
dump_ed25519_pk_openssh(hex_keypair, username) ==
    LET bytes == decode_hex(hex_keypair, KeypairLen)
        pubkey == SubSeq(bytes[1], KeypairLen - PublicLen + 1, KeypairLen)
        dumped == dump_bytes(as_bytes("ssh-ed25519")) \o dump_bytes(pubkey)
    IN IF bytes = None THEN Unwound
       ELSE Dumped(as_bytes("ssh-ed25519") \o <<32>> \o encode_string(dumped) \o <<32>>
                   \o username \o <<10>>)

\* ------------------------------------------------- the codecs on bounded inputs
\* The values a field of each type is drawn from.
U32s == {0, 258}
Strs == {<<>>, as_bytes("ls"), <<195, 169>>}
Slices == {<<>>, <<0, 255>>}
Blobs == {<<19, as_bytes("ssh-ed25519"), <<1, 2>>>>, <<0, <<>>, <<>>>>}
Cookies == {[i \in 1..CookieLen |-> i]}
Reasons == {2, 11}

\* The values of the fields of a record, one sequence for each choice.
RECURSIVE Values(_, _, _)
Values(types, strs, i) ==
    IF i > Len(types) THEN {<<>>}
    ELSE LET choice == CASE types[i] = "u32" -> U32s
                         [] types[i] = "bool" -> BOOLEAN
                         [] types[i] = "str" -> strs
                         [] types[i] = "bytes" -> Slices
                         [] types[i] = "Blob" -> Blobs
                         [] types[i] = "cookie" -> Cookies
                         [] types[i] = "reason" -> Reasons
         IN {<<v>> \o rest : v \in choice, rest \in Values(types, strs, i + 1)}

StructNames ==
    {"Unimplemented", "Kexinit", "KexdhInit", "KexdhReply", "Newkeys", "ServiceRequest",
     "ServiceAccept", "Disconnect", "UserauthSuccess", "UserauthPkOk", "UserauthFailure",
     "ChannelOpen", "ChannelOpenConfirmation", "ChannelOpenFailure", "ChannelData",
     "ChannelExtendedData", "ChannelEof", "ChannelClose", "ChannelSuccess",
     "ChannelFailure", "GlobalRequest", "ChannelWindowAdjust", "Blob"}

\* The records of parse_dump_struct!; the ten name lists of a Kexinit hold one value.
Structs ==
    UNION {{Struct(name, v) :
                v \in Values(Fields(name),
                             IF name = "Kexinit" THEN {as_bytes("none")} ELSE Strs, 1)} :
           name \in StructNames}

ChannelRequests ==
    {ChannelRequest_Exec(c, w, s) : c \in U32s, w \in BOOLEAN, s \in Strs}
    \cup {ChannelRequest_EnvironmentVariable(c, w, n, v) :
            c \in U32s, w \in BOOLEAN, n \in Strs, v \in Strs}
    \cup {ChannelRequest_ExitStatus(c, s) : c \in U32s, s \in U32s}
    \cup {ChannelRequest_Other(c, t, w) :
            c \in U32s, t \in {as_bytes("shell"), as_bytes("ls")}, w \in BOOLEAN}

UserauthRequests ==
    {UserauthRequest_PublicKey(u, as_bytes("ssh-connection"), as_bytes("ssh-ed25519"),
                               b, s) :
        u \in Strs, b \in Blobs, s \in {None} \cup {Some(x) : x \in Blobs}}
    \cup {UserauthRequest_Password(u, as_bytes("ssh-connection"), p, n) :
            u \in Strs, p \in Strs, n \in {None} \cup {Some(x) : x \in Strs}}

Records == Structs \cup ChannelRequests \cup UserauthRequests

\* The type a record is parsed as: the type it was dumped from.
TypeOf(R) ==
    IF "struct" \in DOMAIN R THEN R.struct
    ELSE IF R.variant \in {"PublicKey", "Password"} THEN "UserauthRequest"
    ELSE "ChannelRequest"

\* ParseDump::dump and ParseDump::parse, src/src/parsedump.rs:8-11, by the type.
dump(R) ==
    CASE TypeOf(R) = "ChannelRequest" -> ChannelRequest_dump(R)
      [] TypeOf(R) = "UserauthRequest" -> UserauthRequest_dump(R)
      [] OTHER -> struct_dump(R)

parse(type, bytes) ==
    CASE type = "ChannelRequest" -> ChannelRequest_parse(bytes)
      [] type = "UserauthRequest" -> UserauthRequest_parse(bytes)
      [] OTHER -> struct_parse(type, bytes)

\* The magnitudes an UnsignedMpInt holds: up to MaxMagnitude bytes.
MagnitudeBytes == {0, 5, 128}
Magnitudes == UNION {[1..n -> MagnitudeBytes] : n \in 0..MaxMagnitude}

\* The bytes an UnsignedMpInt is parsed from: a length and a content, and two that
\* stop short.
Encodings == {dump_bytes(x) : x \in Magnitudes} \cup {<<0, 0, 0>>, <<0, 0, 0, 2, 5>>}

\* The keypairs Keypair::generate returns, as bytes.
Keypairs == {[i \in 1..KeypairLen |-> (7 * i + k) % 256] : k \in {0, 9}}

\* The strings given as a hex keypair: the hex of a keypair, in lower and in upper
\* case, and the lower case one cut short, extended, or with a character replaced.
Upper(hex) == [i \in 1..Len(hex) |-> IF hex[i] >= 97 THEN hex[i] - 32 ELSE hex[i]]

HexStrings ==
    UNION {LET hex == encode_hex(keypair)
           IN {hex, Upper(hex), <<>>, SubSeq(hex, 1, Len(hex) - 1), hex \o <<48>>}
              \cup {[hex EXCEPT ![i] = c] : i \in {1, 2, Len(hex)}, c \in {103, 32, 195}} :
           keypair \in Keypairs}

CodecInit ==
    /\ RunIdle
    /\ RecvIdle
    /\ ConnIdle
    /\ SendIdle
    /\ PullIdle
    /\ LoopIdle
    /\ QuickIdle
    /\ ChanIdle
    /\ \/ c_op = "record" /\ c_in \in Records
       \/ c_op = "mpint_dump" /\ c_in \in Magnitudes
       \/ c_op = "mpint_parse" /\ c_in \in Encodings
       \/ c_op = "keypair" /\ c_in \in Keypairs
       \/ c_op = "openssh" /\ c_in \in [hex : HexStrings, username : {as_bytes("ls")}]
    /\ c_mid = None
    /\ c_out = None

\* None of what the connection, the channel and the packet layer hold changes.
CodecOnly ==
    UNCHANGED <<runVars, recvVars, connVars, sendVars, pullVars, loopVars, quickVars, chanVars>>

\* R.dump(sink) on an empty Vec
record_dump ==
    /\ CodecOnly
    /\ c_op = "record"
    /\ c_mid = None
    /\ c_mid' = Some(dump(c_in))
    /\ UNCHANGED <<c_op, c_in, c_out>>

\* parse of the bytes the dump left
record_parse ==
    /\ CodecOnly
    /\ c_op = "record"
    /\ c_mid # None
    /\ c_mid[1].tag = "Ok"
    /\ c_out = None
    /\ c_out' = Some(parse(TypeOf(c_in), c_mid[1].bytes))
    /\ UNCHANGED <<c_op, c_in, c_mid>>

\* UnsignedMpInt::dump, of a magnitude or of what a parse returned
mpint_dump ==
    /\ CodecOnly
    /\ \/ /\ c_op = "mpint_dump"
          /\ c_mid = None
          /\ c_mid' = Some(UnsignedMpInt_dump(c_in))
          /\ UNCHANGED <<c_op, c_in, c_out>>
       \/ /\ c_op = "mpint_parse"
          /\ c_mid # None
          /\ c_mid[1].tag = "Ok"
          /\ c_out = None
          /\ c_out' = Some(UnsignedMpInt_dump(c_mid[1].val))
          /\ UNCHANGED <<c_op, c_in, c_mid>>

\* UnsignedMpInt::parse, of an encoding or of what a dump left
mpint_parse ==
    /\ CodecOnly
    /\ \/ /\ c_op = "mpint_parse"
          /\ c_mid = None
          /\ c_mid' = Some(UnsignedMpInt_parse(c_in))
          /\ UNCHANGED <<c_op, c_in, c_out>>
       \/ /\ c_op = "mpint_dump"
          /\ c_mid # None
          /\ c_out = None
          /\ c_out' = Some(UnsignedMpInt_parse(c_mid[1].bytes))
          /\ UNCHANGED <<c_op, c_in, c_mid>>

\* create_ed25519_keypair: the hex of the keypair generated
keypair_hex ==
    /\ CodecOnly
    /\ c_op = "keypair"
    /\ c_mid = None
    /\ c_mid' = Some(encode_hex(c_in))
    /\ UNCHANGED <<c_op, c_in, c_out>>

\* decode_hex::<64> of that hex
keypair_decode ==
    /\ CodecOnly
    /\ c_op = "keypair"
    /\ c_mid # None
    /\ c_out = None
    /\ c_out' = Some(decode_hex(c_mid[1], KeypairLen))
    /\ UNCHANGED <<c_op, c_in, c_mid>>

\* dump_ed25519_pk_openssh(hex_keypair, username)
pk_openssh ==
    /\ CodecOnly
    /\ c_op = "openssh"
    /\ c_mid = None
    /\ c_mid' = Some(dump_ed25519_pk_openssh(c_in.hex, c_in.username))
    /\ UNCHANGED <<c_op, c_in, c_out>>

CodecNext ==
    \/ record_dump
    \/ record_parse
    \/ mpint_dump
    \/ mpint_parse
    \/ keypair_hex
    \/ keypair_decode
    \/ pk_openssh

SpecCodec == CodecInit /\ [][CodecNext]_vars

\* ------------------------------ Connection::quick_run, quick_run_bytes, quick_run_blind
QuickHelpers == {"quick_run", "quick_run_bytes", "quick_run_blind"}

\* src/src/run.rs:95, 103 and 116: the get_output each helper passes.
get_output(helper) == helper # "quick_run_blind"

\* src/src/run.rs:83: the sleep after a None event, in milliseconds.
SLEEP_MS == 10

\* What reader.recv() hands to the polls of a helper: the inputs of poll, the data
\* with their bytes.  The two bytes of stdout followed by those of stderr are not
\* UTF-8 on their own: 195 then 169 is one character, 169 then 195 is none.
QuickInputs ==
    {[type |-> "ChannelData", len |-> Len(b), bytes |-> b] : b \in {<<65>>, <<195>>}}
    \cup {[type |-> "ChannelExtendedData", data_type |-> 1, len |-> Len(b), bytes |-> b] :
            b \in {<<66>>, <<169>>}}
    \cup {[type |-> "ChannelExtendedData", data_type |-> 2, len |-> 1, bytes |-> <<67>>]}
    \cup {[type |-> "ChannelWindowAdjust", bytes_to_add |-> 1]}
    \cup {[type |-> "ExitStatus", exit_status |-> s] : s \in {0, 1}}
    \cup {[type |-> t] : t \in {"ChannelEof", "ChannelClose", "ChannelSuccess", "Timeout"}}

\* What a helper returns for a command that ran: the output, if any, and the status.
QuickAccepted(output, st) ==
    [tag |-> "Accepted", err |-> "", n |-> 0, st |-> st, output |-> output]

\* The output with the slice ahead of what was collected.
extend_in_front(output, slice) ==
    IF output = None THEN None ELSE Some(slice \o output[1])

\* src/src/run.rs:84-85: output.as_mut().map(|o| o.extend_from_slice(data))
extend_from_slice(output, slice) ==
    IF output = None THEN None ELSE Some(output[1] \o slice)

\* src/src/run.rs:94-121: what each helper makes of what quick_run_internal returns
\* on Stopped, src/src/run.rs:86.
quick_returns(helper, output, st) ==
    CASE helper = "quick_run_bytes" -> QuickAccepted(output, st)
      [] helper = "quick_run" ->
            IF from_utf8(output[1]) THEN QuickAccepted(output, st) ELSE Err("InvalidData")
      [] helper = "quick_run_blind" -> QuickAccepted(None, st)

\* src/src/run.rs:73-75 with 94-121: run() returned Refused or an error, and the
\* helper returns the same.
quick_refused ==
    /\ UNCHANGED <<runVars, recvVars, connVars, sendVars, pullVars, loopVars, codecVars, chanVars>>
    /\ q_pc = "run"
    /\ op = "run"
    /\ res # NoRes
    /\ res # Accepted
    /\ q_res' = res
    /\ q_pc' = "done"
    /\ UNCHANGED <<q_helper, q_output, q_events, q_sleeps>>

\* src/src/run.rs:76-89: one turn of the loop, from the receive of a poll to the
\* receive of the next, or to the return on Stopped or on an error, where the Run is
\* dropped (src/src/run.rs:264-272).  The first turn makes the output buffer.
quick_poll ==
    /\ UNCHANGED <<recvVars, connVars, sendVars, pullVars, loopVars, codecVars, chanVars>>
    /\ rpc = "running"
    /\ q_pc \in {"run", "loop"}
    /\ Len(q_events) < MaxQuickPolls
    /\ \E m \in QuickInputs : \E sent \in WriteOutcomes(m), close_sent \in BOOLEAN :
        /\ Conforming(m)
        /\ LET p == poll(m, sent)
               output == IF q_pc = "loop" THEN q_output
                         ELSE IF get_output(q_helper) THEN Some(<<>>) ELSE None
               returns == p.ev.tag \in {"Stopped", "Err"}
               closes == returns /\ ~p.closed
           IN /\ closes \/ close_sent
              /\ IsTransportError(p.ev) => ~close_sent
              /\ q_events' = Append(q_events,
                                    [ev |-> p.ev,
                                     bytes |-> IF "bytes" \in DOMAIN m THEN m.bytes
                                               ELSE <<>>])
              /\ q_output' = IF p.ev.tag \in {"Data", "ExtDataStderr"}
                             THEN extend_from_slice(output, m.bytes)
                             ELSE output
              /\ q_sleeps' = IF p.ev.tag = "None" THEN q_sleeps + SLEEP_MS ELSE q_sleeps
              /\ q_res' = CASE p.ev.tag = "Stopped" ->
                                    quick_returns(q_helper, output, p.ev.st)
                            [] p.ev.tag = "Err" -> p.ev
                            [] OTHER -> NoRes
              /\ q_pc' = IF returns THEN "done" ELSE "loop"
              /\ close_seen' = (close_seen \/ m.type = "ChannelClose")
              /\ IF returns
                 THEN /\ op' = "drop"
                      /\ out' = p.sends \o (IF closes /\ close_sent
                                            THEN <<ChannelClose(server_channel)>>
                                            ELSE <<>>)
                      /\ rpc' = IF IsTransportError(p.ev) \/ (closes /\ ~close_sent)
                                THEN "dead" ELSE "ready"
                      /\ res' = NoRes
                      /\ client_channel' = 0
                      /\ server_channel' = 0
                      /\ server_max_packet_size' = 0
                      /\ server_window' = 0
                      /\ client_window' = 0
                      /\ exit_status' = None
                      /\ closed' = FALSE
                      /\ received' = NoMessage
                      /\ last_exit' = None
                 ELSE /\ op' = "poll"
                      /\ out' = p.sends
                      /\ rpc' = "running"
                      /\ res' = p.ev
                      /\ client_window' = p.client_window
                      /\ server_window' = p.server_window
                      /\ exit_status' = p.exit_status
                      /\ closed' = p.closed
                      /\ received' = [type |-> m.type]
                      /\ last_exit' = LastExit(m)
                      /\ UNCHANGED <<client_channel, server_channel,
                                     server_max_packet_size>>
    /\ env' = <<>>
    /\ confirmation' = NoMessage
    /\ data' = <<>>
    /\ wbuf' = <<>>
    /\ npolls' = 0
    /\ starved' = FALSE
    /\ UNCHANGED <<next_client_channel, q_helper>>

\* A helper called on a connection that has run nothing yet.
QuickInit ==
    /\ RunIdle
    /\ RecvIdle
    /\ ConnIdle
    /\ SendIdle
    /\ PullIdle
    /\ LoopIdle
    /\ CodecIdle
    /\ ChanIdle
    /\ q_pc = "run"
    /\ q_helper \in QuickHelpers
    /\ q_output = None
    /\ q_events = <<>>
    /\ q_sleeps = 0
    /\ q_res = NoRes

\* src/src/run.rs:74: self.run(command, &[]), once, with no environment.
quick_open == run_open /\ op = "none" /\ env' = <<>>

QuickNext ==
    \/ quick_open
    \/ run_confirm
    \/ run_reply
    \/ quick_refused
    \/ quick_poll

SpecQuick == QuickInit /\ [][QuickNext]_vars

\* ------------------------------------------- the channels of a connection and their server
\* The messages that carry a recipient_channel (ChannelOpenConfirmation and
\* ChannelOpenFailure carry it as client_channel), src/src/messages.rs:121-165.
ChannelMessages ==
    {"ChannelOpenConfirmation", "ChannelOpenFailure", "ChannelWindowAdjust", "ChannelData",
     "ChannelExtendedData", "ChannelEof", "ChannelClose", "ExitStatus", "ChannelSuccess",
     "ChannelFailure"}

\* What a server sends on a channel whose command runs or has run, until it closes it.
Leftovers ==
    {"ChannelWindowAdjust", "ChannelData", "ChannelExtendedData", "ChannelEof",
     "ChannelClose", "ExitStatus"}

\* The channels a message received may be addressed to: the one of the run() or Run in
\* progress, or, for what a command leaves behind, an earlier one the server has not
\* closed.  A read that times out and a message of the transport have none.
Recipients(m) ==
    IF m.type \notin ChannelMessages THEN {None}
    ELSE {Some(c) : c \in {client_channel}
                          \cup (IF m.type \in Leftovers THEN unclosed ELSE {})}

\* The bytes a message takes from the window of its channel (RFC 4254, 5.2).
Consumes(m) == IF m.type \in {"ChannelData", "ChannelExtendedData"} THEN m.len ELSE 0

\* The credit the messages of a sequence add to the server's window.
RECURSIVE Granted(_)
Granted(seq) ==
    IF seq = <<>> THEN 0
    ELSE (IF seq[1].type = "ChannelWindowAdjust" THEN seq[1].bytes_to_add ELSE 0)
         + Granted(Tail(seq))

Closes(seq) == Len(SelectSeq(seq, LAMBDA x : x.type = "ChannelClose"))

\* Connection::run, src/src/run.rs:20-29: the ChannelOpen offers the server a window of
\* CLIENT_INITIAL_WINDOW_SIZE bytes on the new channel.
chan_open ==
    /\ UNCHANGED <<recvVars, connVars, sendVars, pullVars, loopVars, codecVars, quickVars>>
    /\ run_open_body
    /\ addressed' = None
    /\ peer_credit' = CLIENT_INITIAL_WINDOW_SIZE
    /\ close_count' = 0
    /\ UNCHANGED unclosed

\* src/src/run.rs:31-51
chan_confirm ==
    /\ UNCHANGED <<recvVars, connVars, sendVars, pullVars, loopVars, codecVars, quickVars>>
    /\ run_confirm_body
    /\ addressed' \in Recipients(received')
    /\ UNCHANGED <<unclosed, peer_credit, close_count>>

\* src/src/run.rs:53-70: with ChannelSuccess the server runs the command on the channel.
chan_reply ==
    /\ UNCHANGED <<recvVars, connVars, sendVars, pullVars, loopVars, codecVars, quickVars>>
    /\ run_reply_body
    /\ addressed' \in Recipients(received')
    /\ unclosed' = IF received'.type = "ChannelSuccess"
                   THEN unclosed \cup {client_channel}
                   ELSE unclosed
    /\ UNCHANGED <<peer_credit, close_count>>

\* Run::poll, src/src/run.rs:148-206, with a server that keeps to the window it was
\* granted on the channel of the Run, counts what it is granted, and sends nothing more
\* on an earlier channel once it has closed it.  The model follows the channel while
\* the server's window fits a u32 and up to MaxCloses ChannelClose of the client.
chan_poll ==
    /\ UNCHANGED <<recvVars, connVars, sendVars, pullVars, loopVars, codecVars, quickVars>>
    /\ poll_call_body
    /\ \E to \in Recipients(received') :
        /\ addressed' = to
        /\ to = Some(client_channel) => Consumes(received') <= peer_credit
        /\ peer_credit' = peer_credit + Granted(out')
                          - (IF to = Some(client_channel) THEN Consumes(received') ELSE 0)
        /\ unclosed' = IF received'.type = "ChannelClose" THEN unclosed \ {to[1]}
                       ELSE unclosed
    /\ peer_credit' < U32Mod
    /\ close_count' = close_count + Closes(out')
    /\ close_count' <= MaxCloses

\* The drop of the Run, src/src/run.rs:264-272: the server keeps the channel until it
\* has closed it itself.
chan_drop ==
    /\ UNCHANGED <<recvVars, connVars, sendVars, pullVars, loopVars, codecVars, quickVars>>
    /\ drop_body
    /\ addressed' = None
    /\ close_count' = close_count + Closes(out')
    /\ UNCHANGED <<unclosed, peer_credit>>

ChanInit == RunInit

\* Up to MaxRuns commands one after the other on a connection, each channel with the
\* server's account of it.
ChanNext ==
    \/ chan_open
    \/ chan_confirm
    \/ chan_reply
    \/ chan_poll
    \/ chan_drop

SpecChan == ChanInit /\ [][ChanNext]_vars

\* ---------------------------------------------------------------- properties
Writes == {"write", "write_poll"}

IsPrefix(s, t) == Len(s) <= Len(t) /\ s = SubSeq(t, 1, Len(s))

\* The ChannelData messages of a sequence of sent messages, in order.
DataMessages(seq) == SelectSeq(seq, LAMBDA x : x.type = "ChannelData")

RECURSIVE Payload(_)
\* The bytes the ChannelData messages of seq carry, concatenated.
Payload(seq) ==
    IF seq = <<>> THEN <<>>
    ELSE IF Head(seq).type = "ChannelData" THEN Head(seq).data \o Payload(Tail(seq))
    ELSE Payload(Tail(seq))

Ceil(n, m) == (n + m - 1) \div m

\* The types of the messages of a log, in order.
Types(log) == [i \in 1..Len(log) |-> log[i].type]

\* A KexdhReply whose signature is one by the host key it carries over the exchange hash
\* of the session it was received in: the banner and the KexInit received before it.
SignatureVerifies(log, i) ==
    LET m == log[i]
        header == [j \in 1..(i - 2) |->
                     IF j = i - 2 THEN [log[j] EXCEPT !.ending = ""] ELSE log[j]]
        hash == [client_header |-> "SSH-2.0-tinyssh+1.0",
                 server_header |-> header,
                 client_kexinit_payload |-> client_kexinit,
                 server_kexinit_payload |-> log[i - 1],
                 server_public_host_key |-> m.server_public_host_key,
                 client_ephemeral_pubkey |-> "client_ephemeral",
                 server_ephemeral_pubkey |-> m.server_ephemeral_pubkey,
                 shared_secret |-> <<"client_ephemeral", m.server_ephemeral_pubkey>>]
    IN m.signature = [signer |-> m.server_public_host_key, over |-> hash]

\* C1: when the signature of the KexdhReply received does not verify over the exchange
\* hash under the host key of that reply, Connection::new returns an error, and NewKeys,
\* ServiceRequest and UserauthRequest are never sent on that connection.
BadSignatureStops ==
    \A i \in 3..Len(crcvd) :
        (crcvd[i].type = "KexdhReply" /\ crcvd[i - 1].type = "Kexinit"
            /\ ~SignatureVerifies(crcvd, i)) =>
            /\ hs = "failed"
            /\ cres.tag = "Err"
            /\ \A j \in 1..Len(csent) :
                  csent[j].type \notin {"Newkeys", "ServiceRequest", "UserauthRequest"}

\* The handshake failed on a reply of well-formed length signed by a key that is not the
\* host key it carries, KexdhInit being the last message sent.
BadSignatureStopsWitness ==
    /\ Len(crcvd) = 3
    /\ crcvd[3].type = "KexdhReply"
    /\ crcvd[3].key_len = 32 /\ crcvd[3].eph_len = 32 /\ crcvd[3].sig_len = 64
    /\ crcvd[3].signature.signer # crcvd[3].server_public_host_key
    /\ cres = Err("InvalidData")
    /\ Types(csent) = <<"banner", "Kexinit", "KexdhInit">>

\* What Connection::new sends and what it must have received before each message, for
\* the Auth of this connection.
SendOrder ==
    <<"banner", "Kexinit", "KexdhInit", "Newkeys", "ServiceRequest", "UserauthRequest">>
    \o (IF auth = "Ed25519" THEN <<"UserauthRequest">> ELSE <<>>)

ReceiveOrder ==
    <<"line", "Kexinit", "KexdhReply", "Newkeys", "ServiceAccept">>
    \o (IF auth = "Ed25519" THEN <<"UserauthPkOk">> ELSE <<>>)
    \o <<"UserauthSuccess">>

\* The i-th thing received is the one the handshake needs at that step.
StepDone(i) ==
    /\ i <= Len(crcvd)
    /\ i <= Len(ReceiveOrder)
    /\ crcvd[i].type = ReceiveOrder[i]
    /\ i = 1 => crcvd[1].prefix \in {"SSH-2.0-", "SSH-1.99-"} /\ crcvd[1].ending = "\r\n"
    /\ i = 2 => \A f \in AlgorithmFields :
                    \E k \in 1..Len(crcvd[2][f]) : crcvd[2][f][k] = client_kexinit[f]
    /\ i = 3 => /\ SignatureVerifies(crcvd, 3)
                /\ crcvd[3].key_len = 32 /\ crcvd[3].eph_len = 32 /\ crcvd[3].sig_len = 64

\* C2: Connection::new returns a connection only after it has received, in this order,
\* the peer banner, a server KexInit compatible with the client's, a KexdhReply whose
\* signature verifies, NewKeys, ServiceAccept and UserauthSuccess (with UserauthPkOk
\* before it for a key); what it sends is, in this order, its banner, KexInit,
\* KexdhInit, NewKeys, ServiceRequest and the UserauthRequest; and each message is sent
\* only when every step before it has succeeded, so that after a failure nothing of a
\* later step goes out.
HandshakeInOrder ==
    /\ IsPrefix(Types(csent), SendOrder)
    /\ \A j \in 2..Len(csent) : \A i \in 1..(j - 1) : StepDone(i)
    /\ hs = "connected" <=> cres = Ok
    /\ cres = Ok =>
          /\ Types(crcvd) = ReceiveOrder
          /\ \A i \in 1..Len(crcvd) : StepDone(i)
          /\ Types(csent) = SendOrder
    /\ hs = "failed" <=> cres.tag = "Err"

\* A connection returned to a client that authenticates with a key: seven messages
\* sent, the last the signed request.
HandshakeInOrderWitness ==
    /\ cres = Ok
    /\ auth = "Ed25519"
    /\ Len(csent) = 7
    /\ csent[7].signature # <<>>
    /\ Types(crcvd) = <<"line", "Kexinit", "KexdhReply", "Newkeys", "ServiceAccept",
                        "UserauthPkOk", "UserauthSuccess">>

\* What recv_raw does with a packet, read off the packet alone: it rejects it with an
\* error, drops it without a word, or returns its payload.
Rejected(pkt) ==
    \/ negociated /\ ~pkt.mac_ok
    \/ pkt.payload.typ \notin DOMAIN MessageTypes
    \/ pkt.payload.typ = 80 /\ ~pkt.payload.whole

Dropped(pkt) ==
    \/ pkt.payload.typ = 2
    \/ pkt.payload.typ = 80 /\ pkt.payload.want_reply = FALSE

RECURSIVE Kept(_)
Kept(pkts) ==
    IF pkts = <<>> THEN <<>>
    ELSE IF Rejected(Head(pkts)) \/ Dropped(Head(pkts)) THEN Kept(Tail(pkts))
    ELSE <<Head(pkts).payload>> \o Kept(Tail(pkts))

RunSendsInOrder ==
    op = "run" =>
        LET open == <<ChannelOpen(client_channel)>>
            sc == confirmation.server_channel
            requests == [i \in 1..(Len(env) + 1) |->
                            IF i <= Len(env)
                            THEN [type |-> "ChannelRequest", request |-> "env",
                                  recipient_channel |-> sc, want_reply |-> FALSE,
                                  name |-> env[i]]
                            ELSE [type |-> "ChannelRequest", request |-> "exec",
                                  recipient_channel |-> sc, want_reply |-> TRUE]]
            replied == rpc \in {"ready", "running"} /\ Len(out) = Len(env) + 2
        IN /\ Len(out) >= 1 => out[1].type = "ChannelOpen" /\ out[1].channel_type = "session"
           /\ rpc = "run_confirm" => out = open
           /\ Len(out) > 1 =>
                /\ confirmation.type = "ChannelOpenConfirmation"
                /\ IsPrefix(out, open \o requests)
           /\ rpc = "run_reply" => out = open \o requests
           /\ res \in {Accepted, Refused} => out = open \o requests
           /\ replied /\ received.type = "ChannelSuccess" =>
                res = Accepted /\ rpc = "running" /\ server_channel = sc
           /\ replied /\ received.type = "ChannelFailure" => res = Refused /\ rpc = "ready"
           /\ res = Accepted => replied /\ received.type = "ChannelSuccess"
           /\ res = Refused => replied /\ received.type = "ChannelFailure"

\* A second run() refused on a connection whose first run() was made with two variables.
RunSendsInOrderWitness ==
    /\ op = "run"
    /\ res = Refused
    /\ Len(env) = 2
    /\ Len(out) = 4
    /\ client_channel = 1

\* C5: a poll() that receives ChannelClose sends ChannelClose to server_channel, marks
\* the run closed and returns Stopped(s), s being the exit status received last on the
\* channel, or none if there was none; a poll() that receives the exit-status request or
\* ChannelEof returns the event None.  (A poll whose socket write fails returns that
\* error instead.)
PollStops ==
    op = "poll" =>
        /\ received.type = "ChannelClose" /\ res.tag # "Err" =>
              /\ out = <<[type |-> "ChannelClose", recipient_channel |-> server_channel]>>
              /\ closed
              /\ res = EvStopped(last_exit)
        /\ received.type = "ChannelClose" /\ res.tag = "Err" => rpc = "dead"
        /\ received.type \in {"ExitStatus", "ChannelEof"} => res = EvNone /\ out = <<>>
        /\ res.tag = "Stopped" => received.type = "ChannelClose"

\* A poll that returned Stopped with the exit status 1 the server had sent.
PollStopsWitness ==
    /\ op = "poll"
    /\ received.type = "ChannelClose"
    /\ res = EvStopped(Some(1))
    /\ closed

\* The step of a poll that received ChannelData, and the window between polls.
WindowStep ==
    (op' = "poll" /\ received'.type = "ChannelData" /\ res'.tag # "Err") =>
        LET w == client_window - received'.len
        IN IF w < CLIENT_WIN_TELL_TRIGGER
           THEN /\ out' = <<[type |-> "ChannelWindowAdjust",
                             recipient_channel |-> server_channel,
                             bytes_to_add |-> CLIENT_INITIAL_WINDOW_SIZE - w]>>
                /\ client_window' = CLIENT_INITIAL_WINDOW_SIZE
           ELSE /\ out' = <<>>
                /\ client_window' = w

WindowKept ==
    /\ rpc = "running" => client_window >= CLIENT_WIN_TELL_TRIGGER
    /\ op = "poll" /\ received.type # "ChannelData" =>
          \A i \in 1..Len(out) : out[i].type # "ChannelWindowAdjust"

ChunkStep ==
    (op \in Writes /\ Len(out') = Len(out) + 1 /\ out'[Len(out')].type = "ChannelData") =>
        LET chunk == out'[Len(out')].data
        IN /\ Len(chunk) <= server_max_packet_size
           /\ Len(chunk) <= server_window
           /\ server_window' = server_window - Len(chunk)
           /\ out'[Len(out')].recipient_channel = server_channel

ChunksArePrefix ==
    op \in Writes =>
        /\ IsPrefix(Payload(out), wbuf)
        /\ res = Ok => Payload(out) = wbuf
        /\ res # Ok => Payload(out) \o data = wbuf

\* C6: every ChannelData a write sends carries at most min(server_max_packet_size,
\* server_window) bytes, the window being the one before that send, and the payloads
\* sent so far, concatenated, are a prefix of the caller's buffer: the part not yet sent
\* is the rest of it, and a write that returns Ok has sent the whole buffer.
ChunksBounded == []ChunksArePrefix /\ [][ChunkStep]_vars

\* A write of three bytes that returned Ok after three chunks of one byte.
ChunksBoundedWitness ==
    /\ op \in Writes
    /\ res = Ok
    /\ Len(wbuf) = 3
    /\ Len(DataMessages(out)) = 3
    /\ Payload(out) = wbuf

\* C8 as stated: a write of N bytes, N >= 0, that returns Ok without the window having
\* cut a chunk has sent ceil(N / server_max_packet_size) ChannelData messages.
ChunkCountAsStated ==
    (op \in Writes /\ res = Ok /\ ~starved) =>
        Len(DataMessages(out)) = Ceil(Len(wbuf), server_max_packet_size)

\* C8: a write of N >= 1 bytes that returns Ok without the window having cut a chunk
\* has sent ceil(N / server_max_packet_size) ChannelData messages; a write of an empty
\* buffer sends one ChannelData message, which is empty.
ChunkCount ==
    (op \in Writes /\ res = Ok /\ ~starved) =>
        IF Len(wbuf) = 0
        THEN DataMessages(out) = <<[type |-> "ChannelData",
                                    recipient_channel |-> server_channel, data |-> <<>>]>>
        ELSE Len(DataMessages(out)) = Ceil(Len(wbuf), server_max_packet_size)

\* A write of three bytes in packets of two, the window never short: two messages.
ChunkCountWitness ==
    /\ op \in Writes
    /\ res = Ok
    /\ ~starved
    /\ Len(wbuf) = 3
    /\ server_max_packet_size = 2
    /\ Len(DataMessages(out)) = 2

\* The step that calls a write, and the state of a write refused.
ClosedRunStep ==
    (rpc = "running" /\ op' \in Writes) =>
        IF closed
        THEN /\ res' = Err("ProcessHasExited")
             /\ out' = <<>>
             /\ server_window' = server_window
             /\ rpc' = "running"
        ELSE res' = NoRes /\ rpc' = "write_loop"

ClosedRunResult ==
    (op \in Writes /\ res = Err("ProcessHasExited")) =>
        closed /\ out = <<>> /\ npolls = 0

\* C9: a write or write_poll called on a closed run fails with ProcessHasExited, sends
\* nothing and leaves server_window as it was; no other write fails with that error.
ClosedRunRefusesWrites == []ClosedRunResult /\ [][ClosedRunStep]_vars

\* A write of two bytes refused on a closed run whose server had credit left.
ClosedRunRefusesWritesWitness ==
    /\ op = "write"
    /\ res = Err("ProcessHasExited")
    /\ closed
    /\ Len(wbuf) = 2
    /\ server_window >= 2
    /\ out = <<>>

\* The step of write() that polls, and the state of a write ended by an event.
EventStep ==
    (op = "write" /\ rpc = "write_poll" /\ rpc' # "write_poll") =>
        LET t == received'.type
            event == \/ t \in {"ChannelData", "ChannelClose"}
                     \/ t = "ChannelExtendedData" /\ received'.data_type = 1
            quiet == t \in {"ChannelWindowAdjust", "ChannelEof", "ExitStatus", "Timeout"}
        IN /\ event /\ ~IsTransportError(res') =>
                /\ res' = Err("on_event")
                /\ rpc' = "running"
                /\ DataMessages(out') = DataMessages(out)
           /\ quiet => res' = NoRes /\ rpc' = "write_loop"

EventResult ==
    (op = "write" /\ res = Err("on_event")) =>
        /\ rpc = "running"
        /\ \/ received.type \in {"ChannelData", "ChannelClose"}
           \/ received.type = "ChannelExtendedData" /\ received.data_type = 1

\* C10: write() returns the on_event error at the first poll of the write that yields
\* Data, ExtDataStderr or Stopped, and so sends no ChannelData of the buffer after it;
\* a poll that yields the event None (window adjust, EOF, exit status, read timeout)
\* lets the write go on.  (A poll whose socket write fails returns that error instead.)
WriteStopsAtEvent == []EventResult /\ [][EventStep]_vars

\* A write that failed with on_event upon data, one chunk sent and the rest unsent.
WriteStopsAtEventWitness ==
    /\ op = "write"
    /\ res = Err("on_event")
    /\ received.type = "ChannelData"
    /\ Len(DataMessages(out)) = 1
    /\ Len(data) >= 1
    /\ Payload(out) \o data = wbuf

\* A step that drops the Run.
DropStep == op' = "drop" /\ rpc = "running"

\* C11: the drop of a Run none of whose polls received ChannelClose sends exactly one
\* ChannelClose, addressed to server_channel, or nothing when that send fails, and the
\* failure is reported to no one; the drop of a Run whose poll received ChannelClose and
\* answered it sends nothing.
DropClosesOnce ==
    [][DropStep =>
        /\ res' = NoRes
        /\ ~close_seen =>
              \/ out' = <<ChannelClose(server_channel)>> /\ rpc' = "ready"
              \/ out' = <<>> /\ rpc' = "dead"
        /\ (close_seen /\ closed) => (out' = <<>> /\ rpc' = "ready")]_vars

\* A Run that saw no ChannelClose was dropped and its ChannelClose went out.
DropClosesOnceWitness ==
    /\ op = "drop"
    /\ ~close_seen
    /\ out = <<ChannelClose(5)>>

\* The last element of a non-empty log.
Last(log) == log[Len(log)]

\* A line of the peer that starts with one of the two SSH prefixes.
IsBannerLine(l) == l.type = "line" /\ l.prefix \in {"SSH-2.0-", "SSH-1.99-"}

\* The first n things received are CRLF-terminated lines, the last of them a banner line
\* and none of the others.
LinesThenBanner(n) ==
    /\ \A j \in 1..n : crcvd[j].type = "line" /\ crcvd[j].ending = "\r\n"
    /\ \A j \in 1..(n - 1) : ~IsBannerLine(crcvd[j])
    /\ IsBannerLine(crcvd[n])

\* C15: once the peer has sent k >= 0 CRLF-terminated lines without an SSH prefix and
\* then one line with it, the handshake has left the banner loop, and the peer banner
\* it keeps is that one line without its CRLF, with nothing of the k lines in it.
BannerAfterLines ==
    \A n \in 1..Len(crcvd) :
        LinesThenBanner(n) =>
            /\ hs # "banner"
            /\ ServerHeader(peer_version) = <<[crcvd[n] EXCEPT !.ending = ""]>>

\* C16: when the server answers a UserauthRequest with UserauthFailure, Connection::new
\* fails with AuthenticationFailure.
AuthFailureReported ==
    (/\ csent # <<>> /\ Last(csent).type = "UserauthRequest"
     /\ crcvd # <<>> /\ Last(crcvd).type = "UserauthFailure")
        => (hs = "failed" /\ cres = Err("AuthenticationFailure"))

\* Every algorithm field of the server's KexInit holds the name the client offers.
AllFieldsContain(server) ==
    \A f \in AlgorithmFields : \E i \in 1..Len(server[f]) : server[f][i] = client_kexinit[f]

\* The KexInit the handshake judged: the first message after the banner, if it is one.
JudgedKexinit(i) ==
    /\ i \in 2..Len(crcvd)
    /\ crcvd[i].type = "Kexinit"
    /\ IsBannerLine(crcvd[i - 1])

\* C17: when a field of the server's KexInit lacks the client's name, Connection::new
\* fails with NoAlgorithmOverlap and KexdhInit is not sent; when all eight fields hold
\* it, the check passes whatever the language lists are.
NoOverlapReported ==
    \A i \in 1..Len(crcvd) :
        JudgedKexinit(i) =>
            IF AllFieldsContain(crcvd[i])
            THEN ~(Len(crcvd) = i /\ hs = "failed" /\ cres.err # "TcpError")
            ELSE /\ hs = "failed"
                 /\ cres = Err("NoAlgorithmOverlap")
                 /\ \A j \in 1..Len(csent) : csent[j].type # "KexdhInit"

\* The message type each receiving step of the handshake expects.
Expected(step) ==
    CASE step = "kexinit" -> "Kexinit"
      [] step = "kexdh" -> "KexdhReply"
      [] step = "newkeys" -> "Newkeys"
      [] step = "service" -> "ServiceAccept"
      [] step = "pkok" -> "UserauthPkOk"
      [] step = "success" -> "UserauthSuccess"
      [] OTHER -> "none"

\* A step of the handshake that receives a message of a type other than the expected.
UnexpectedStep ==
    /\ Expected(hs) # "none"
    /\ Len(crcvd') = Len(crcvd) + 1
    /\ Last(crcvd').type \notin {Expected(hs), "Timeout"}

\* C18: a handshake step that receives a message of a known type other than the one it
\* expects fails with UnexpectedMessageType naming the type received.
UnexpectedIsReported ==
    [][UnexpectedStep =>
        (hs' = "failed" /\ cres' = UnexpectedMessageType(Last(crcvd').type))]_vars

\* A step in which send builds and writes a packet.
SendStep == w_packet_number' # w_packet_number

\* The MAC bytes a packet of this writer ends with.
mac_size == IF w_negociated THEN MacLength ELSE 0

PaddingAtLeastFour ==
    [][SendStep => w_packet'[U32 + 1] >= 4]_vars

\* C13: a send whose socket write reports would-block or timed-out returns Timeout and
\* leaves the write sequence number and the keystream position as they were.
SendTimeoutKeepsState ==
    [][(SendStep /\ sres' = Err("Timeout")) =>
        (w_packet_number' = w_packet_number /\ w_keystream' = w_keystream)]_vars

\* A step in which the read of the length field times out before a byte of the next
\* packet was taken, the reader being in step with the server.
CleanTimeout ==
    /\ rd = "length"
    /\ Framed
    /\ rd' = "idle"
    /\ io'.kind \in Timeouts
    /\ io'.got = 0

\* C12: when the socket read times out before any byte of the next packet is consumed,
\* recv returns Timeout, poll returns RunEvent::None, and the read sequence number, the
\* keystream position, exit_status, closed and both windows are as before; the reader
\* stands where it stood in the stream, so that the next poll reads the next packet as
\* if the timeout had not been.
PollTimesOutCleanly ==
    [][CleanTimeout =>
        /\ rres' = Err("Timeout")
        /\ res' = EvNone
        /\ rpc' = "running"
        /\ out' = <<>>
        /\ UNCHANGED <<packet_number, keystream, negociated>>
        /\ UNCHANGED <<exit_status, closed, client_window, server_window>>
        /\ UNCHANGED <<at, pulled, peer_number>>]_vars

\* A poll timed out between two packets after the reader had taken packets in, and it
\* returned None.
PollTimesOutCleanlyWitness ==
    /\ rd = "idle"
    /\ io = [kind |-> "WouldBlock", got |-> 0]
    /\ rres = Err("Timeout")
    /\ res = EvNone
    /\ Framed
    /\ pulled > 0
    /\ packet_number = peer_number

\* A step in which a read times out after the length field was read and decrypted.
MidPacketTimeout ==
    /\ rd \in {"body", "mac"}
    /\ rd' = "idle"
    /\ io'.kind \in Timeouts

\* C14: a read timeout after the length field was read and decrypted is fatal: recv does
\* not return a recoverable Timeout, poll does not return RunEvent::None, and no later
\* receive starts with the reader out of step with the stream.
MidPacketTimeoutIsFatal ==
    /\ [][MidPacketTimeout =>
            (rres'.tag = "Err" /\ rres' # Err("Timeout") /\ res'.tag = "Err")]_vars
    /\ [](rd = "length" => Framed)

\* C21: in each direction the sequence number is the count, modulo 2^32, of the packets
\* sent before (writer) or received and accepted before (reader) since the connection
\* started, filtered packets included; it is the number fed into the MAC of the next
\* packet, it wraps to 0 and the installation of the keys leaves it as it is.
SequenceNumbersCount ==
    /\ w_packet_number = w_count % U32Mod
    /\ packet_number = r_count % U32Mod
    /\ w_fed # None => w_fed = Some((w_count + U32Mod - 1) % U32Mod)
    /\ r_fed # None => r_fed = Some((r_count + U32Mod - 1) % U32Mod)

\* Under the keys both numbers have wrapped, and the reader has just counted and
\* filtered the packet that the writer authenticated under the number 0.
SequenceNumbersCountWitness ==
    /\ negociated
    /\ w_count = U32Mod + 1
    /\ r_count = U32Mod + 1
    /\ w_fed = Some(0)
    /\ r_fed = Some(0)
    /\ rd = "recv_raw"
    /\ packet_number = 1

\* A payload of a type that recv_raw filters: an Ignore, or a global request whose
\* want_reply byte, its last, is zero.
IsFilteredPayload(pl) ==
    \/ pl[1] = 2
    \/ pl[1] = 80 /\ pl[Len(pl)] = 0

\* A step in which the reader takes a packet from the socket.
LoopPacketStep == pulled' # pulled

\* C22: the reader recovers every payload the writer sent, in order and byte for byte,
\* but for the filtered types, without an error, before and after the keys; for each
\* packet it takes 4 + packet_length + mac_size bytes from the socket and advances its
\* keystream by packet_length + 4 bytes, so that it stands where the writer stands.
WriterReaderRoundTrip ==
    /\ [](rres.tag \notin {"Err", "Panic"})
    /\ [](stream = <<>> =>
            (keystream = w_keystream /\ packet_number = w_packet_number))
    /\ [][LoopPacketStep =>
            LET sent == Head(inflight)
                frame == send_raw_packet(sent, w_block_size)
            IN /\ IF IsFilteredPayload(sent)
                  THEN rd' = "recv_raw" /\ rres' = NoRes
                  ELSE rd' = "idle" /\ rres' = Ok /\ r_payload' = sent
               /\ pulled' - pulled = Len(frame) + r_mac_size
               /\ keystream' - keystream = IF negociated THEN Len(frame) ELSE 0]_vars

\* Under the keys the reader returned the channel data that leaves no room for padding,
\* after a packet it had filtered, and stands where the writer stands.
WriterReaderRoundTripWitness ==
    /\ negociated
    /\ rres = Ok
    /\ Len(r_payload) = 27
    /\ r_payload = w_message
    /\ stream = <<>>
    /\ keystream = 64
    /\ keystream = w_keystream
    /\ pulled >= 2 * (32 + MacLength)

\* The packet at the head of the socket as the peer framed it: its length field and
\* its padding byte.  A packet of length 0 has no padding byte of its own.
HeadLength == from_be_bytes(Head(inflight))
HeadPadding == IF HeadLength = 0 THEN 0 ELSE Head(inflight)[U32 + 1]

\* Under the keys, the trailer of the packet at the head of the socket is not the MAC of
\* the reader's sequence number and the packet in clear.
BadTrailer ==
    /\ negociated
    /\ From(stream, Len(stream) - r_mac_size) # Hmac(packet_number, Head(inflight))

\* The packet at the head of the socket has room for its padding and its padding byte.
WellFramed == HeadLength >= HeadPadding + 1

\* C23: a packet whose MAC trailer is not the MAC of the read sequence number and the
\* packet in clear makes the receive fail with BadMac; no payload of it is returned or
\* filtered and the read sequence number is not incremented.  Stated for the packets
\* whose length field is valid.
BadMacIsReported ==
    [][(LoopPacketStep /\ BadTrailer /\ WellFramed) =>
        /\ rd' = "idle"
        /\ rres' = Err("BadMac")
        /\ r_payload' = <<>>
        /\ packet_number' = packet_number]_vars

\* C24: a packet whose packet_length is less than padding_length + 1, a packet_length
\* of 0 included, with or without a MAC, makes the receive return an error value (the
\* one for an invalid length): the receive does not panic, and it returns or filters no
\* payload.
ShortLengthIsAnError ==
    [][(LoopPacketStep /\ HeadLength < HeadPadding + 1) =>
        /\ rd' = "idle"
        /\ rres'.tag = "Err"
        /\ r_payload' = <<>>]_vars

\* C25: every record dumps without an error, and the parse of what it dumped returns
\* the record and the number of bytes of the dump; the Other variant of ChannelRequest
\* is one of the records.
RecordRoundTrip ==
    c_op = "record" =>
        /\ c_mid # None => c_mid[1].tag = "Ok"
        /\ c_out # None => c_out[1] = Parsed(c_in, Len(c_mid[1].bytes))

\* The magnitude without its leading zero bytes.
RECURSIVE Retained(_)
Retained(x) == IF x # <<>> /\ x[1] = 0 THEN Retained(From(x, 1)) ELSE x

\* The encoding of a magnitude: the retained bytes after a 0 when the first of them
\* has its high bit set, after their length.
MinimalMpInt(x) ==
    LET kept == Retained(x)
    IN dump_bytes(IF kept # <<>> /\ kept[1] >= 128 THEN <<0>> \o kept ELSE kept)

\* C26: the dump of a magnitude omits its leading zero bytes, puts one 0 ahead of a
\* first retained byte with the high bit set and none otherwise, and turns an empty
\* or all-zero magnitude into 00 00 00 00.
MpIntDumpStripsZeros ==
    (c_op = "mpint_dump" /\ c_mid # None) => c_mid[1] = Dumped(MinimalMpInt(c_in))

\* The bytes without the leading bytes equal to b.
RECURSIVE Without(_, _)
Without(b, x) == IF x # <<>> /\ x[1] = b THEN Without(b, From(x, 1)) ELSE x

\* The value of a magnitude, a big-endian number without a sign: two magnitudes have
\* one value when they differ in leading zero bytes only.
MagnitudeValue(x) == [negative |-> FALSE, digits |-> Without(0, x)]

\* The value of the content of an mpint, a big-endian number in two's complement:
\* negative when its first bit is set, and then its digits are what follows the
\* leading bytes of sign.
MpIntValue(content) ==
    IF content # <<>> /\ content[1] >= 128
    THEN [negative |-> TRUE, digits |-> Without(255, content)]
    ELSE MagnitudeValue(content)

\* A length and that many bytes of a number that is not negative, with no byte more
\* than the number needs.
IsMinimalMpInt(b) ==
    /\ Len(b) >= U32
    /\ from_be_bytes(b) = Len(b) - U32
    /\ LET content == From(b, U32)
       IN \/ content = <<>>
          \/ content[1] > 0 /\ content[1] < 128
          \/ content[1] = 0 /\ Len(content) >= 2 /\ content[2] >= 128

\* C27: parsing a minimal unsigned mpint and dumping what was parsed gives the same
\* bytes back, and dumping a magnitude and parsing the dump gives an mpint of the
\* same value as the magnitude.
MpIntRoundTrips ==
    /\ (c_op = "mpint_parse" /\ IsMinimalMpInt(c_in)) =>
        /\ c_mid # None => c_mid[1].tag = "Ok"
        /\ c_out # None => c_out[1] = Dumped(c_in)
    /\ (c_op = "mpint_dump" /\ c_out # None) =>
        /\ c_out[1].tag = "Ok"
        /\ c_out[1].inc = Len(c_mid[1].bytes)
        /\ MpIntValue(c_out[1].val) = MagnitudeValue(c_in)

\* A magnitude with its high bit set went through dump and parse, and came back with
\* a zero byte more.
MpIntRoundTripsWitness ==
    /\ c_op = "mpint_dump"
    /\ c_out # None
    /\ c_in # <<>>
    /\ c_in[1] >= 128
    /\ c_out[1].val = <<0>> \o c_in

\* A character of a hex string.
IsHexDigit(c) == (c >= 48 /\ c <= 57) \/ (c >= 65 /\ c <= 70) \/ (c >= 97 /\ c <= 102)

\* C29: an operation given a hex keypair that is not 128 hex characters returns the
\* InvalidKeypair error, and the hex made of a keypair decodes to the 64 bytes of
\* that keypair.
HexKeypairIsChecked ==
    /\ (/\ c_op = "openssh"
        /\ c_mid # None
        /\ \/ Len(c_in.hex) # 2 * KeypairLen
           \/ \E i \in 1..Len(c_in.hex) : ~IsHexDigit(c_in.hex[i])) =>
            c_mid[1] = DumpErr("InvalidKeypair")
    /\ (c_op = "keypair" /\ c_out # None) => c_out[1] = Some(c_in)

\* What the last poll of the helper returned.
LastPolled == q_events[Len(q_events)].ev

\* The last poll of the helper returned Stopped.
PolledStopped == q_events # <<>> /\ LastPolled.tag = "Stopped"

\* The payloads of the Data and ExtDataStderr events among the first n polled, in
\* the order of their arrival.
RECURSIVE Collected(_)
Collected(n) ==
    IF n = 0 THEN <<>>
    ELSE Collected(n - 1) \o (IF q_events[n].ev.tag \in {"Data", "ExtDataStderr"}
                              THEN q_events[n].bytes ELSE <<>>)

\* A helper returns Refused when exec is refused and the error when run() or a poll
\* fails; it returns at the first Stopped or error polled and not before, Stopped
\* comes of a ChannelClose only, it has slept 10 ms for each None event, and
\* quick_run_blind collects nothing and returns the status alone.
QuickHelperLoop ==
    /\ (q_pc = "done" /\ q_events = <<>>) => q_res = res /\ res.tag \in {"Refused", "Err"}
    /\ (op = "run" /\ res.tag \in {"Refused", "Err"} /\ q_pc = "done") => q_res = res
    /\ (q_events # <<>> /\ LastPolled.tag = "Err") => q_res = LastPolled
    /\ \A i \in 1..(Len(q_events) - 1) : q_events[i].ev.tag \notin {"Stopped", "Err"}
    /\ (q_pc = "done" /\ q_events # <<>>) => LastPolled.tag \in {"Stopped", "Err"}
    /\ q_pc # "done" => q_res = NoRes
    /\ PolledStopped => close_seen
    /\ q_sleeps = 10 * Cardinality({i \in 1..Len(q_events) : q_events[i].ev.tag = "None"})
    /\ q_helper = "quick_run_blind" =>
        /\ q_output = None
        /\ q_res.tag = "Accepted" <=> PolledStopped
        /\ PolledStopped => q_res = QuickAccepted(None, LastPolled.st)

\* C28 as stated: quick_run and quick_run_bytes return Accepted with the output and
\* the status exactly when poll yields Stopped with that status, the output being
\* every Data and ExtDataStderr payload polled, in order; and the rest of what the
\* helpers do.
QuickRunStopsAccepted ==
    /\ QuickHelperLoop
    /\ q_helper \in {"quick_run", "quick_run_bytes"} =>
        /\ q_res.tag = "Accepted" <=> PolledStopped
        /\ PolledStopped =>
            q_res = QuickAccepted(Some(Collected(Len(q_events))), LastPolled.st)

\* C28, amended: as stated for quick_run_bytes; quick_run returns Accepted with the
\* output and the status when poll yields Stopped and the output collected is UTF-8,
\* and the InvalidData error when poll yields Stopped and the output is not UTF-8.
QuickRunStopsAcceptedOrInvalid ==
    /\ QuickHelperLoop
    /\ q_helper = "quick_run_bytes" =>
        /\ q_res.tag = "Accepted" <=> PolledStopped
        /\ PolledStopped =>
            q_res = QuickAccepted(Some(Collected(Len(q_events))), LastPolled.st)
    /\ q_helper = "quick_run" =>
        /\ q_res.tag = "Accepted" => PolledStopped
        /\ PolledStopped =>
            q_res = IF from_utf8(Collected(Len(q_events)))
                    THEN QuickAccepted(Some(Collected(Len(q_events))), LastPolled.st)
                    ELSE Err("InvalidData")

\* quick_run polled a stderr and a stdout payload that make no UTF-8 together, then
\* Stopped, and returned the error.
QuickRunStopsAcceptedOrInvalidWitness ==
    /\ q_helper = "quick_run"
    /\ q_pc = "done"
    /\ PolledStopped
    /\ q_res = Err("InvalidData")
    /\ Len(q_events) = 3
    /\ q_events[1].ev.tag = "ExtDataStderr"
    /\ q_events[2].ev.tag = "Data"
    /\ ~from_utf8(Collected(Len(q_events)))

\* The exchange hash of the session in which the i-th message of a log, a KexdhReply,
\* was received.
SessionHash(log, i) ==
    [client_header |-> "SSH-2.0-tinyssh+1.0",
     server_header |-> [j \in 1..(i - 2) |->
                          IF j = i - 2 THEN [log[j] EXCEPT !.ending = ""] ELSE log[j]],
     client_kexinit_payload |-> client_kexinit,
     server_kexinit_payload |-> log[i - 1],
     server_public_host_key |-> log[i].server_public_host_key,
     client_ephemeral_pubkey |-> "client_ephemeral",
     server_ephemeral_pubkey |-> log[i].server_ephemeral_pubkey,
     shared_secret |-> <<"client_ephemeral", log[i].server_ephemeral_pubkey>>]

\* The places of the UserauthRequest messages among those sent.
Requests == {i \in 1..Len(csent) : csent[i].type = "UserauthRequest"}

\* C30: with ed25519 authentication the first UserauthRequest is a publickey one with
\* has_option false and no signature; a signed one, with has_option true, is sent only
\* once UserauthPkOk has been received and after the unsigned one, with the same user
\* name, service name, algorithm and key blob; and what is signed is the session id,
\* the byte 50, the user name, "ssh-connection", "publickey", true, "ssh-ed25519" and
\* the key blob, in that order, the session id being the exchange hash of the
\* KexdhReply received, which that reply's signature verifies over.
Ed25519RequestsInOrder ==
    auth = "Ed25519" =>
        \A i \in Requests :
            /\ csent[i].method = "publickey"
            /\ csent[i].has_option <=> csent[i].signature # None
            /\ (\A j \in Requests : i <= j) => csent[i].signature = None
            /\ csent[i].signature # None =>
                /\ \E k \in 1..Len(crcvd) : crcvd[k].type = "UserauthPkOk"
                /\ \E j \in Requests :
                    /\ j < i
                    /\ csent[j].signature = None
                    /\ csent[j].username = csent[i].username
                    /\ csent[j].service_name = csent[i].service_name
                    /\ csent[j].algorithm = csent[i].algorithm
                    /\ csent[j].blob = csent[i].blob
                /\ \E k \in 3..Len(crcvd) :
                    /\ crcvd[k].type = "KexdhReply"
                    /\ SignatureVerifies(crcvd, k)
                    /\ csent[i].signature[1].content.over =
                        <<String(SessionHash(crcvd, k)), Byte(50),
                          String(csent[i].username), String("ssh-connection"),
                          String("publickey"), Bool(TRUE), String("ssh-ed25519"),
                          csent[i].blob>>

\* The signed request has just been sent, after the unsigned one and on UserauthPkOk.
Ed25519RequestsInOrderWitness ==
    /\ auth = "Ed25519"
    /\ hs = "success"
    /\ Len(csent) = 7
    /\ csent[6].signature = None
    /\ csent[7].signature # None
    /\ crcvd[Len(crcvd)].type = "UserauthPkOk"

\* C31: a poll that receives ChannelExtendedData with data_type 1 returns the stderr
\* event with its data, and one that receives ChannelExtendedData with any other
\* data_type returns no event or the stderr event: it never returns an error.
ExtendedDataNeverFails ==
    (op = "poll" /\ received.type = "ChannelExtendedData") =>
        /\ res.tag # "Err"
        /\ received.data_type = 1 => res = EvExtDataStderr(received.len)
        /\ received.data_type # 1 => res \in {EvNone, EvExtDataStderr(received.len)}

\* C32: the cipher and the MAC are installed in the packet writer and the packet reader
\* only once the client's NewKeys has been sent and the server's received; until then the
\* block size is 8, the MAC size is 0 and every packet is sent in plaintext; from then on
\* the block size used for framing is 16 and the MAC size is 32; and the first encrypted
\* packet is ServiceRequest.
KeysAfterNewKeys ==
    /\ w_negociated <=> negociated
    /\ w_negociated =>
        /\ \E i \in 1..Len(csent) : csent[i].type = "Newkeys"
        /\ \E k \in 1..Len(crcvd) : crcvd[k].type = "Newkeys"
        /\ w_block_size = 16
        /\ r_mac_size = 32
    /\ ~w_negociated =>
        /\ w_block_size = 8
        /\ r_mac_size = 0
        /\ \A i \in 1..Len(csent) : ~csent[i].encrypted
    /\ \A i \in 1..Len(csent) :
        (csent[i].encrypted /\ \A j \in 1..(i - 1) : ~csent[j].encrypted) =>
            csent[i].type = "ServiceRequest"

\* The messages a step writes to the socket: what it appends to those of the call in
\* progress, or all the messages of a call that starts.
NewlySent ==
    IF IsPrefix(out, out') THEN SubSeq(out', Len(out) + 1, Len(out')) ELSE out'

\* C33: no ChannelData is sent on a run once that run is marked closed, in any
\* interleaving: when ChannelClose arrives while write_poll polls between two chunks and
\* the callback returns Ok for the Stopped event, write_poll sends none of the chunks
\* that remain.
NoDataAfterClose ==
    [][closed => DataMessages(NewlySent) = <<>>]_vars

\* C34: every event a Run surfaces and every change of its state comes from a message
\* whose recipient_channel is the client_channel of that Run: a message addressed to
\* the channel of an earlier Run, dropped before its Stopped event, is not delivered to
\* a later Run as Data, ExtDataStderr or Stopped, does not make its poll fail, and
\* changes neither its windows, its exit status nor its closed flag, nor makes it send.
OnlyOwnChannelCounts ==
    [][(op' = "poll" /\ addressed' # None /\ addressed' # Some(client_channel)
            /\ ~IsTransportError(res')) =>
            /\ res'.tag = "None"
            /\ out' = <<>>
            /\ UNCHANGED <<client_window, server_window, exit_status, closed>>]_vars

\* C36: the credit the server has left on the channel of a Run (the initial window and
\* every bytes_to_add the client has sent, less the ChannelData and ChannelExtendedData
\* bytes the server has sent) never reaches 0 without a ChannelWindowAdjust of the
\* client raising it, and client_window, which never underflows, never exceeds it, for
\* any mix of stdout and stderr data.
ServerCreditKept ==
    rpc = "running" =>
        /\ client_window <= peer_credit
        /\ client_window <= CLIENT_INITIAL_WINDOW_SIZE
        /\ peer_credit > 0

\* C38: over the lifetime of an accepted Run, its polls and its drop, the client sends
\* at most one ChannelClose on the channel, whatever the server sends, a second
\* ChannelClose included, and however often poll is called after Stopped.
ClientClosesOnce == close_count <= 1

\* C35: write_poll waits for an incoming message only when the remote window is 0: a
\* write that the window covers, even one longer than server_max_packet_size, sends
\* all its chunks without a receive in between.
WaitsOnlyWithoutWindow == rpc = "write_poll" => server_window = 0

\* The bytes_to_add of the ChannelWindowAdjust a step receives: a step receives in
\* poll(), called by the caller or by the write in progress.
Adjusted ==
    IF ((rpc = "running" /\ op' = "poll") \/ rpc = "write_poll")
       /\ received'.type = "ChannelWindowAdjust"
    THEN received'.bytes_to_add
    ELSE 0

\* C37: at every point of a Run server_window is server_initial_window_size, plus the
\* bytes_to_add of every ChannelWindowAdjust received, less the ChannelData bytes
\* sent: it starts at server_initial_window_size and every step of the Run adds to it
\* what the step receives as bytes_to_add and takes from it the ChannelData bytes the
\* step sends; and it is never negative, so that the bytes sent never exceed the
\* credit the server granted.
RemoteWindowAccounted ==
    /\ [](confirmation # NoMessage =>
            server_window = confirmation.server_initial_window_size)
    /\ [](server_window >= 0)
    /\ [][op' # "drop" =>
            server_window' = server_window + Adjusted - Len(Payload(NewlySent))]_vars

\* A write found the window short, received more credit and sent the rest.
RemoteWindowAccountedWitness ==
    /\ op \in Writes
    /\ res = Ok
    /\ starved
    /\ received.type = "ChannelWindowAdjust"
    /\ Len(DataMessages(out)) >= 2
    /\ server_window = 0

\* C39: the banner-reading loop of Connection::new ends whatever the peer does: once
\* the peer has closed the stream before a line with an SSH prefix was read,
\* Connection::new returns an error.
BannerLoopEnds == eof ~> (hs = "failed" /\ cres.tag = "Err")

====
